------------------------------ MODULE Spec2Model ------------------------------
(***************************************************************************)
(* MarkdownViewer: the rendering pipeline (utils/text_cleaner.py,          *)
(* utils/markdown_renderer.py) and the preview widget that schedules it    *)
(* (widgets/markdown_preview.py).                                          *)
(*                                                                         *)
(* Text is a sequence of Unicode code points.  An HTML string is the       *)
(* sequence of its tokens (opening tag with its attributes in source       *)
(* order, closing tag, run of text); a Markdown source is the sequence of  *)
(* its blocks, the text of each as code points.  The two libraries the     *)
(* renderer calls, Python-Markdown and bleach, are modelled at this token  *)
(* level, at the places the renderer calls them.                           *)
(***************************************************************************)
EXTENDS Integers, Sequences, FiniteSets, TLC

(***************************************************************************)
(* Strings and tokens                                                      *)
(***************************************************************************)

Min(S) == CHOOSE x \in S : \A y \in S : x <= y
Max(S) == CHOOSE x \in S : \A y \in S : x >= y

IsLower(c) == c \in 97..122
IsUpper(c) == c \in 65..90
IsDigit(c) == c \in 48..57
IsWordChar(c) == IsLower(c) \/ IsUpper(c) \/ IsDigit(c) \/ c = 95
Lower(c) == IF IsUpper(c) THEN c + 32 ELSE c

\* str.isspace() of one character
IsSpace(c) ==
    \/ c \in 9..13
    \/ c \in 28..32
    \/ c \in {133, 160, 5760, 8232, 8233, 8239, 8287, 12288}
    \/ c \in 8192..8202

AllSpace(s) == \A i \in 1..Len(s) : IsSpace(s[i])

\* str.strip()
Between(s, inked) == IF inked = {} THEN <<>> ELSE SubSeq(s, Min(inked), Max(inked))
Strip(s) == Between(s, {i \in 1..Len(s) : ~IsSpace(s[i])})

\* str.replace(c, '') for a single character c
RemoveChar(s, c) == SelectSeq(s, LAMBDA x : x # c)

\* the sequence with f applied to every element of s
MapSeq(s, f(_)) == SubSeq([i \in 1..Len(s) |-> f(s[i])], 1, Len(s))

\* str.replace(c, d) for single characters c and d
ReplaceChar(s, c, d) == MapSeq(s, LAMBDA x : IF x = c THEN d ELSE x)

\* does pat occur in s at index i
OccursAt(s, i, pat) ==
    /\ i + Len(pat) - 1 <= Len(s)
    /\ \A k \in 1..Len(pat) : s[i + k - 1] = pat[k]

\* is s[i] the '&' of an entity: &name; &#123; &#x1f;
RECURSIVE EntityEndsAt(_, _)
EntityEndsAt(s, j) ==
    /\ j <= Len(s)
    /\ \/ s[j] = 59
       \/ (IsLower(s[j]) \/ IsUpper(s[j]) \/ IsDigit(s[j])) /\ EntityEndsAt(s, j + 1)

IsEntityAt(s, i) ==
    /\ s[i] = 38
    /\ i + 2 <= Len(s)
    /\ IF s[i + 1] = 35
       THEN s[i + 2] # 59 /\ EntityEndsAt(s, i + 2)
       ELSE s[i + 1] # 59 /\ EntityEndsAt(s, i + 1)

\* NFC on the code points the model uses: the singleton canonical mappings
\* and the compositions of a base character with a combining mark
NfcSingleton(c) ==
    CASE c = 8491 -> 197      \* ANGSTROM SIGN -> A WITH RING ABOVE
      [] c = 8486 -> 937      \* OHM SIGN -> GREEK CAPITAL OMEGA
      [] OTHER -> c

NfcComposable(b, m) == <<b, m>> \in {<<101, 769>>, <<97, 769>>, <<65, 778>>}

NfcCompose(b, m) ==
    CASE <<b, m>> = <<101, 769>> -> 233    \* e + COMBINING ACUTE -> e-acute
      [] <<b, m>> = <<97, 769>> -> 225     \* a + COMBINING ACUTE -> a-acute
      [] <<b, m>> = <<65, 778>> -> 197     \* A + COMBINING RING -> A-ring
      [] OTHER -> b

Attr(n, v) == [name |-> n, value |-> v]
Open(n, attrs) == [type |-> "open", name |-> n, attrs |-> attrs, text |-> <<>>]
Close(n) == [type |-> "close", name |-> n, attrs |-> <<>>, text |-> <<>>]
Text(s) == [type |-> "text", name |-> "", attrs |-> <<>>, text |-> s]
Doctype == [type |-> "doctype", name |-> "html", attrs |-> <<>>, text |-> <<>>]

IsTag(tok) == tok.type \in {"open", "close"}

\* allowed_tags of markdown_renderer.py:182
allowed_tags ==
    {"a", "abbr", "acronym", "b", "blockquote", "br", "code", "dd", "del",
     "div", "dl", "dt", "em", "h1", "h2", "h3", "h4", "h5", "h6", "hr",
     "i", "img", "ins", "kbd", "li", "ol", "p", "pre", "q", "s", "samp",
     "span", "strong", "sub", "sup", "table", "tbody", "td", "tfoot", "th",
     "thead", "tr", "tt", "u", "ul", "var"}

\* allowed_attributes of markdown_renderer.py:190
allowed_attributes(tag) ==
    {"class", "id"} \cup
    (CASE tag = "a" -> {"href", "title", "name"}
       [] tag = "img" -> {"src", "alt", "title", "width", "height"}
       [] tag = "table" -> {"border", "cellpadding", "cellspacing"}
       [] tag \in {"td", "th"} -> {"colspan", "rowspan"}
       [] OTHER -> {})

\* bleach's default protocols (clean is called without protocols=):
\* http, https, mailto
ALLOWED_PROTOCOLS ==
    {<<104, 116, 116, 112>>, <<104, 116, 116, 112, 115>>, <<109, 97, 105, 108, 116, 111>>}

\* the attributes bleach checks as URIs, among those allowed_attributes lets by
UriAttributes == {"href", "src"}

\* urlparse's scheme of v, lower-cased; <<>> when v has none
FirstColon(colons) == IF colons = {} THEN 0 ELSE Min(colons)
SchemeName(prefix) ==
    IF /\ prefix # <<>>
       /\ IsLower(prefix[1])
       /\ \A i \in 1..Len(prefix) :
              IsLower(prefix[i]) \/ IsDigit(prefix[i]) \/ prefix[i] \in {43, 45, 46}
    THEN prefix ELSE <<>>
UriScheme(v) ==
    SchemeName(MapSeq(SubSeq(v, 1, FirstColon({i \in 1..Len(v) : v[i] = 58}) - 1), Lower))

\* bleach's sanitize_uri_value: a value with a scheme passes when the scheme
\* is an allowed protocol; a value without one passes
SchemeAllowed(scheme) == scheme = <<>> \/ scheme \in ALLOWED_PROTOCOLS
UriAllowed(v) == SchemeAllowed(UriScheme(v))

\* bleach as it would be if it let every attribute by
KeepEveryAttribute(tag, attr) == TRUE

\* bleach keeps an attribute the allow-list names, unless it is a URI
\* attribute with a protocol that is not allowed
AttrKept(tag, attr) ==
    /\ attr.name \in allowed_attributes(tag)
    /\ attr.name \in UriAttributes => UriAllowed(attr.value)

\* the text of the tokens i..j of html, concatenated (j - i is small)
RECURSIVE TextOf(_, _, _)
TextOf(html, i, j) == IF i > j THEN <<>> ELSE html[i].text \o TextOf(html, i + 1, j)

\* The left-to-right rewritings of a string or of a token sequence s.  Step
\* gives what position i contributes (out) and where the rewriting goes on
\* (next):
\*   replace   str.replace(pat, rep), the non-overlapping occurrences
\*   nfc       composition of a base character with the mark that follows
\*   escape    the HTML serialiser's escaping of character data: & (unless
\*             it starts an entity), < and >
\*   escapecode  the highlighter's escaping of code: & < > " '
\*   unescape  the characters an HTML reader takes escaped code for
\*   collapse  re.sub(r'[-\s]+', '-', s)
\*   nl2br     the characters of a paragraph, each newline a <br />
\*   join      the token form of a serialised string: adjacent runs of text
\*             are one run, an empty run is nothing
\*   bleach    bleach.clean(html, tags, attributes, strip=True), token by
\*             token
RECURSIVE ScanRange(_, _, _, _)

\* bleach as it would be if it let every token by
KeepEveryToken(tok) == <<tok>>

\* bleach.clean(html, tags, attributes, strip=True) on one token: a tag that
\* is not allowed is removed and what it encloses stays, an allowed tag keeps
\* the attributes that pass, text is escaped
BleachToken(tok) ==
    CASE tok.type = "open" /\ tok.name \in allowed_tags ->
           <<[tok EXCEPT !.attrs = SelectSeq(@, LAMBDA attr : AttrKept(tok.name, attr))]>>
      [] tok.type = "close" /\ tok.name \in allowed_tags -> <<tok>>
      [] tok.type = "text" ->
           <<Text(IF \E k \in 1..Len(tok.text) : tok.text[k] \in {38, 60, 62}
                  THEN ScanRange([op |-> "escape"], tok.text, 1, Len(tok.text)).out
                  ELSE tok.text)>>
      [] OTHER -> <<>>

\* where the run that starts at i ends: before the first of the stops
RunEnd(s, stops) == IF stops = {} THEN Len(s) + 1 ELSE Min(stops)

\* the steps of collapse, nl2br and join, the run from i on ending before end
CollapseRun(s, i, end) ==
    IF end > i THEN [out |-> <<45>>, next |-> end] ELSE [out |-> <<s[i]>>, next |-> i + 1]
BreakRun(s, i, end) ==
    IF end > i THEN [out |-> <<Text(SubSeq(s, i, end - 1))>>, next |-> end]
    ELSE [out |-> <<Open("br", <<>>)>>, next |-> i + 1]
TextRun(run) == IF run = <<>> THEN <<>> ELSE <<Text(run)>>
JoinRun(s, i, end) ==
    IF end > i THEN [out |-> TextRun(TextOf(s, i, end - 1)), next |-> end]
    ELSE [out |-> <<s[i]>>, next |-> i + 1]

Step(rule, s, i) ==
    CASE rule.op = "replace" ->
           IF OccursAt(s, i, rule.pat)
           THEN [out |-> rule.rep, next |-> i + Len(rule.pat)]
           ELSE [out |-> <<s[i]>>, next |-> i + 1]
      [] rule.op = "nfc" ->
           IF i < Len(s) /\ NfcComposable(s[i], s[i + 1])
           THEN [out |-> <<NfcCompose(s[i], s[i + 1])>>, next |-> i + 2]
           ELSE [out |-> <<s[i]>>, next |-> i + 1]
      [] rule.op = "escape" ->
           [out |-> CASE s[i] = 38 /\ ~IsEntityAt(s, i) -> <<38, 97, 109, 112, 59>>
                      [] s[i] = 60 -> <<38, 108, 116, 59>>
                      [] s[i] = 62 -> <<38, 103, 116, 59>>
                      [] OTHER -> <<s[i]>>,
            next |-> i + 1]
      [] rule.op = "escapecode" ->
           [out |-> CASE s[i] = 38 -> <<38, 97, 109, 112, 59>>
                      [] s[i] = 60 -> <<38, 108, 116, 59>>
                      [] s[i] = 62 -> <<38, 103, 116, 59>>
                      [] s[i] = 34 -> <<38, 113, 117, 111, 116, 59>>
                      [] s[i] = 39 -> <<38, 35, 51, 57, 59>>
                      [] OTHER -> <<s[i]>>,
            next |-> i + 1]
      [] rule.op = "unescape" ->
           CASE OccursAt(s, i, <<38, 97, 109, 112, 59>>) -> [out |-> <<38>>, next |-> i + 5]
             [] OccursAt(s, i, <<38, 108, 116, 59>>) -> [out |-> <<60>>, next |-> i + 4]
             [] OccursAt(s, i, <<38, 103, 116, 59>>) -> [out |-> <<62>>, next |-> i + 4]
             [] OccursAt(s, i, <<38, 113, 117, 111, 116, 59>>) ->
                  [out |-> <<34>>, next |-> i + 6]
             [] OccursAt(s, i, <<38, 35, 51, 57, 59>>) -> [out |-> <<39>>, next |-> i + 5]
             [] OTHER -> [out |-> <<s[i]>>, next |-> i + 1]
      [] rule.op = "collapse" ->
           CollapseRun(s, i, RunEnd(s, {k \in i..Len(s) : ~(s[k] = 45 \/ IsSpace(s[k]))}))
      [] rule.op = "nl2br" ->
           BreakRun(s, i, RunEnd(s, {k \in i..Len(s) : s[k] = 10}))
      [] rule.op = "join" ->
           JoinRun(s, i, RunEnd(s, {k \in i..Len(s) : s[k].type # "text"}))
      [] rule.op = "bleach" -> [out |-> BleachToken(s[i]), next |-> i + 1]

\* the rewriting of the positions i..stop, by halves: the left half, and then
\* the right half from where the left one stopped
RECURSIVE After(_, _, _, _)
Both(left, right) == [out |-> left.out \o right.out, next |-> right.next]
ScanRange(rule, s, i, stop) ==
    IF i > stop THEN [out |-> <<>>, next |-> i]
    ELSE IF i = stop THEN Step(rule, s, i)
    ELSE After(rule, s, stop, ScanRange(rule, s, i, (i + stop) \div 2))

After(rule, s, stop, left) == Both(left, ScanRange(rule, s, left.next, stop))

Scan(op, s) == ScanRange([op |-> op], s, 1, Len(s)).out

\* str.replace(pat, rep)
ReplaceSub(s, pat, rep) ==
    IF \E i \in 1..Len(s) : OccursAt(s, i, pat)
    THEN ScanRange([op |-> "replace", pat |-> pat, rep |-> rep], s, 1, Len(s)).out
    ELSE s

\* unicodedata.normalize('NFC', s)
Compose(mapped) ==
    IF \E i \in 1..(Len(mapped) - 1) : NfcComposable(mapped[i], mapped[i + 1])
    THEN Scan("nfc", mapped) ELSE mapped
NFC(s) == Compose(MapSeq(s, NfcSingleton))

\* the serialiser's escaping of character data
EscapeCdata(s) ==
    IF \E i \in 1..Len(s) : s[i] \in {38, 60, 62} THEN Scan("escape", s) ELSE s

\* the highlighter's escaping of the code of a fenced block
EscapeCode(s) ==
    IF \E i \in 1..Len(s) : s[i] \in {34, 38, 39, 60, 62} THEN Scan("escapecode", s) ELSE s

\* the text content a reader of the HTML gets from escaped character data
Unescape(s) == IF \E i \in 1..Len(s) : s[i] = 38 THEN Scan("unescape", s) ELSE s

\* the token form of a serialised string
Join(html) == Scan("join", html)

(***************************************************************************)
(* utils/text_cleaner.py                                                   *)
(***************************************************************************)

\* the character class of text_cleaner.py:46
IsStrippedControl(c) ==
    \/ c \in 0..8
    \/ c = 11
    \/ c = 12
    \/ c \in 14..31
    \/ c \in 127..159

\* the first step of clean_text as it would be if it removed nothing
KeepArtifacts(text) == text

\* the steps of clean_text, text_cleaner.py:22-52, in the order of the code
RemoveArtifacts(text) == RemoveChar(RemoveChar(RemoveChar(text, 182), 182), 65533)
NormalizeSpaces(text) ==
    ReplaceChar(ReplaceChar(ReplaceChar(ReplaceChar(ReplaceChar(text,
        8233, 10), 8232, 10), 160, 32), 8239, 32), 8199, 32)
\* the removal of the invisible characters as it would be with the joiner among them
RemoveInvisibleAndJoiner(text) ==
    RemoveChar(RemoveChar(RemoveChar(RemoveChar(RemoveChar(text, 8288), 8203), 8204), 8205),
               65279)
RemoveInvisible(text) ==
    RemoveChar(RemoveChar(RemoveChar(RemoveChar(text, 8288), 8203), 8204), 65279)
\* the removal of control characters as it would be if it removed nothing
KeepControl(text) == text
StripControl(text) == SelectSeq(text, LAMBDA c : ~IsStrippedControl(c))
\* the last step as it would be if it replaced every \r on its own
ReplaceEveryCr(text) == ReplaceChar(text, 13, 10)
NormalizeLineEndings(text) == ReplaceChar(ReplaceSub(text, <<13, 10>>, <<10>>), 13, 10)

\* text_cleaner.clean_text
clean_text(text) ==
    IF text = <<>> THEN text
    ELSE NormalizeLineEndings(NFC(StripControl(RemoveInvisible(
             NormalizeSpaces(RemoveArtifacts(text))))))

\* the entity forms of the pilcrow: &para;  &#182;  &#x00B6;
PARA_ENTITY == <<38, 112, 97, 114, 97, 59>>
PARA_NUMERIC == <<38, 35, 49, 56, 50, 59>>
PARA_HEX == <<38, 35, 120, 48, 48, 66, 54, 59>>

\* text_cleaner.clean_html
clean_html(html) ==
    IF html = <<>> THEN html
    ELSE ReplaceSub(ReplaceSub(ReplaceSub(clean_text(html), PARA_ENTITY, <<>>),
                               PARA_NUMERIC, <<>>), PARA_HEX, <<>>)

\* text_cleaner.is_problematic_char, of the code point of the character
is_problematic_char(code) ==
    \/ code = 182
    \/ code = 65533
    \/ code < 32 /\ code \notin {9, 10, 13}
    \/ code \in 127..159
    \/ code \in {8203, 8204, 8288, 65279}
    \/ code \in {8232, 8233}
(***************************************************************************)
(* Markdown sources                                         *)
(***************************************************************************)

Heading(text) ==
    [kind |-> "heading", text |-> text, strong |-> <<>>, html |-> <<>>, ref |-> <<>>]
Para(strong, text) ==
    [kind |-> "para", text |-> text, strong |-> strong, html |-> <<>>, ref |-> <<>>]
RawHtml(html) ==
    [kind |-> "html", text |-> <<>>, strong |-> <<>>, html |-> html, ref |-> <<>>]
Fence(code) ==
    [kind |-> "fence", text |-> code, strong |-> <<>>, html |-> <<>>, ref |-> <<>>]
RefDef(id) ==
    [kind |-> "refdef", text |-> <<>>, strong |-> <<>>, html |-> <<>>, ref |-> id]
RefLink(label, id) ==
    [kind |-> "reflink", text |-> label, strong |-> <<>>, html |-> <<>>, ref |-> id]

\* the blank check as it would be if no source were blank
NeverBlank(markdown_text) == FALSE

\* not markdown_text.strip(): only a source made of whitespace is blank
IsBlank(markdown_text) ==
    \A i \in 1..Len(markdown_text) :
        /\ markdown_text[i].kind = "para"
        /\ markdown_text[i].strong = <<>>
        /\ AllSpace(markdown_text[i].text)

\* a cleaner applied to every run of characters of a fragment: the text
\* between the tags and the attribute values inside them
MapTokens(html, f(_)) ==
    MapSeq(html, LAMBDA tok :
        [tok EXCEPT !.text = f(@),
                    !.attrs = MapSeq(@, LAMBDA attr : [attr EXCEPT !.value = f(@)])])

\* clean_text and clean_html applied to a serialised fragment
CleanTextTokens(html) == MapTokens(html, clean_text)
CleanHtmlTokens(html) == MapTokens(html, clean_html)

\* clean_text applied to a Markdown source
CleanSource(markdown_text) ==
    MapSeq(markdown_text, LAMBDA block :
        [block EXCEPT !.text = clean_text(@),
                      !.strong = clean_text(@),
                      !.html = CleanTextTokens(@)])

(***************************************************************************)
(* The Markdown processor (markdown.Markdown with the extensions of        *)
(* _create_markdown_processor).  Its state across calls is the reference   *)
(* definitions it has collected and the table of contents of its last      *)
(* conversion; reset() clears both.                                        *)
(***************************************************************************)

S_class == <<99, 108, 97, 115, 115>>
S_codehilite == <<99, 111, 100, 101, 104, 105, 108, 105, 116, 101>>
S_toc == <<116, 111, 99>>
S_headerlink == <<104, 101, 97, 100, 101, 114, 108, 105, 110, 107>>
\* 'Permalink to this headline'
PERMALINK_TITLE ==
    <<80, 101, 114, 109, 97, 108, 105, 110, 107, 32, 116, 111, 32, 116, 104, 105, 115, 32,
      104, 101, 97, 100, 108, 105, 110, 101>>
\* the URL every reference definition of the model's documents gives: http://r
REF_URL == <<104, 116, 116, 112, 58, 47, 47, 114>>

\* markdown.extensions.toc.slugify with separator '-': ASCII only, the
\* characters outside [\w\s-] dropped, stripped, lower-cased, separators merged
slugify(value) ==
    Scan("collapse", MapSeq(Strip(SelectSeq(SelectSeq(value, LAMBDA c : c < 128),
        LAMBDA c : IsWordChar(c) \/ IsSpace(c) \/ c = 45)), Lower))

\* markdown.extensions.toc.unique: id, else id_1, id_2, ... (one digit is
\* enough for the documents of the model)
RECURSIVE UniqueFrom(_, _, _)
Candidate(id, n) == IF n = 0 THEN id ELSE id \o <<95, 48 + n>>
UniqueFrom(id, ids, n) ==
    IF (Candidate(id, n) \in ids \/ Candidate(id, n) = <<>>) /\ n < 9
    THEN UniqueFrom(id, ids, n + 1)
    ELSE Candidate(id, n)

unique(id, ids) == UniqueFrom(id, ids, 0)

\* the inline content of a paragraph or heading under nl2br
Inline(s) == Scan("nl2br", EscapeCdata(Strip(s)))

\* the elements Python-Markdown treats as block level among the model's tags
BlockLevelElements == {"script", "p", "div", "pre", "table", "h1", "preview"}

\* the headings of a source, in order, each with its unique slug
RECURSIVE HeadingIds(_, _, _)
HeadingWithId(source, i, ids, id) ==
    <<[id |-> id, text |-> Strip(source[i].text)]>> \o HeadingIds(source, i + 1, ids \cup {id})
HeadingIds(source, i, ids) ==
    IF i > Len(source) THEN <<>>
    ELSE IF source[i].kind = "heading"
    THEN HeadingWithId(source, i, ids, unique(slugify(source[i].text), ids))
    ELSE HeadingIds(source, i + 1, ids)

\* the toc extension's permalink anchor
Permalink(id) ==
    <<Open("a", <<Attr("class", S_headerlink), Attr("href", <<35>> \o id),
                  Attr("title", PERMALINK_TITLE)>>),
      Text(PARA_ENTITY), Close("a")>>

\* the fragment of one block; nth is the number of headings before it
BlockHtml(block, headings, nth, references) ==
    CASE block.kind = "heading" ->
           <<Open("h1", <<Attr("id", headings[nth + 1].id)>>)>>
           \o Inline(block.text) \o Permalink(headings[nth + 1].id) \o <<Close("h1")>>
      [] block.kind = "para" ->
           IF Strip(block.strong) = <<>> /\ Strip(block.text) = <<>> THEN <<>>
           ELSE <<Open("p", <<>>)>>
                \o (IF block.strong = <<>> THEN <<>>
                    ELSE <<Open("strong", <<>>), Text(EscapeCdata(block.strong)),
                           Close("strong")>>)
                \o (IF Strip(block.text) = <<>> THEN <<>>
                    ELSE IF block.strong = <<>> THEN Inline(block.text)
                    ELSE <<Text(<<32>> \o EscapeCdata(Strip(block.text)))>>)
                \o <<Close("p")>>
      [] block.kind = "html" ->
           IF block.html # <<>> /\ block.html[1].name \in BlockLevelElements
           THEN block.html
           ELSE <<Open("p", <<>>)>> \o block.html \o <<Close("p")>>
      [] block.kind = "fence" ->
           <<Open("div", <<Attr("class", S_codehilite)>>), Open("pre", <<>>),
             Open("span", <<>>), Close("span"), Open("code", <<>>),
             Text(EscapeCode(block.text) \o <<10>>),
             Close("code"), Close("pre"), Close("div")>>
      [] block.kind = "reflink" ->
           IF block.ref \in references
           THEN <<Open("p", <<>>), Open("a", <<Attr("href", REF_URL)>>),
                  Text(EscapeCdata(block.text)), Close("a"), Close("p")>>
           ELSE <<Open("p", <<>>),
                  Text(<<91>> \o EscapeCdata(block.text) \o <<93, 91>> \o block.ref \o <<93>>),
                  Close("p")>>
      [] OTHER -> <<>>

CountHeadings(source, n) ==
    Cardinality({i \in 1..n : source[i].kind = "heading"})

RECURSIVE BlocksHtml(_, _, _, _)
BlocksHtml(source, i, headings, references) ==
    IF i > Len(source) THEN <<>>
    ELSE BlockHtml(source[i], headings, CountHeadings(source, i - 1), references)
         \o BlocksHtml(source, i + 1, headings, references)

\* the toc extension's <div class="toc">: one entry per heading
RECURSIVE TocEntries(_, _)
TocEntries(headings, i) ==
    IF i > Len(headings) THEN <<>>
    ELSE <<Open("li", <<>>), Open("a", <<Attr("href", <<35>> \o headings[i].id)>>),
           Text(EscapeCdata(headings[i].text)), Close("a"), Close("li")>>
         \o TocEntries(headings, i + 1)

TocDiv(headings) ==
    <<Open("div", <<Attr("class", S_toc)>>), Open("ul", <<>>)>>
    \o TocEntries(headings, 1) \o <<Close("ul"), Close("div")>>

\* the processor as constructed: no references, an empty toc
NewProcessor == [references |-> {}, toc |-> <<>>]

\* reset as it would be if it kept what the processor has collected
KeepProcessor(md) == md

\* markdown.Markdown.reset
MdReset(md) == [references |-> {}, toc |-> <<>>]

\* markdown.Markdown.convert: the fragment and the processor afterwards.  A
\* blank source returns '' before any extension runs.  Otherwise the reference
\* definitions of the source join those the processor holds, and the toc is
\* replaced by this conversion's
Converted(source, references, headings) ==
    [html |-> Join(BlocksHtml(source, 1, headings, references)),
     md |-> [references |-> references, toc |-> TocDiv(headings)]]
MdConvert(md, source) ==
    IF IsBlank(source) THEN [html |-> <<>>, md |-> md]
    ELSE Converted(source,
                   md.references \cup {source[i].ref : i \in {k \in 1..Len(source) :
                                                                source[k].kind = "refdef"}},
                   HeadingIds(source, 1, {}))

\* the style value injected at markdown_renderer.py:149 and :156
PRE_STYLE ==
    <<98, 97, 99, 107, 103, 114, 111, 117, 110, 100, 45, 99, 111, 108, 111, 114, 58, 32, 35, 49,
    54, 49, 98, 50, 50, 32, 33, 105, 109, 112, 111, 114, 116, 97, 110, 116, 59, 32, 98, 97, 99,
    107, 103, 114, 111, 117, 110, 100, 45, 105, 109, 97, 103, 101, 58, 32, 110, 111, 110, 101,
    32, 33, 105, 109, 112, 111, 114, 116, 97, 110, 116, 59, 32, 98, 97, 99, 107, 103, 114, 111,
    117, 110, 100, 58, 32, 35, 49, 54, 49, 98, 50, 50, 32, 33, 105, 109, 112, 111, 114, 116, 97,
    110, 116, 59, 32, 112, 97, 100, 100, 105, 110, 103, 58, 32, 49, 54, 112, 120, 59, 32, 98,
    111, 114, 100, 101, 114, 45, 114, 97, 100, 105, 117, 115, 58, 32, 56, 112, 120, 59, 32, 98,
    111, 114, 100, 101, 114, 58, 32, 49, 112, 120, 32, 115, 111, 108, 105, 100, 32, 35, 51, 48,
    51, 54, 51, 100, 59, 32, 109, 97, 114, 103, 105, 110, 58, 32, 49, 54, 112, 120, 32, 48, 59,
    32, 100, 105, 115, 112, 108, 97, 121, 58, 32, 98, 108, 111, 99, 107, 59, 32, 108, 105, 110,
    101, 45, 104, 101, 105, 103, 104, 116, 58, 32, 48, 46, 57, 59, 32, 119, 104, 105, 116, 101,
    45, 115, 112, 97, 99, 101, 58, 32, 112, 114, 101, 59, 32, 102, 111, 110, 116, 45, 102, 97,
    109, 105, 108, 121, 58, 32, 67, 111, 110, 115, 111, 108, 97, 115, 44, 32, 77, 111, 110, 97,
    99, 111, 44, 32, 109, 111, 110, 111, 115, 112, 97, 99, 101, 59>>

\* the style value injected at markdown_renderer.py:163
CODE_STYLE ==
    <<98, 97, 99, 107, 103, 114, 111, 117, 110, 100, 45, 99, 111, 108, 111, 114, 58, 32, 116,
    114, 97, 110, 115, 112, 97, 114, 101, 110, 116, 32, 33, 105, 109, 112, 111, 114, 116, 97,
    110, 116, 59, 32, 98, 97, 99, 107, 103, 114, 111, 117, 110, 100, 45, 105, 109, 97, 103, 101,
    58, 32, 110, 111, 110, 101, 32, 33, 105, 109, 112, 111, 114, 116, 97, 110, 116, 59, 32, 98,
    97, 99, 107, 103, 114, 111, 117, 110, 100, 58, 32, 116, 114, 97, 110, 115, 112, 97, 114,
    101, 110, 116, 32, 33, 105, 109, 112, 111, 114, 116, 97, 110, 116, 59, 32, 99, 111, 108,
    111, 114, 58, 32, 35, 101, 54, 101, 100, 102, 51, 59, 32, 108, 105, 110, 101, 45, 104, 101,
    105, 103, 104, 116, 58, 32, 48, 46, 57, 59, 32, 119, 104, 105, 116, 101, 45, 115, 112, 97,
    99, 101, 58, 32, 112, 114, 101, 59>>
(***************************************************************************)
(* MarkdownRenderer                                                        *)
(***************************************************************************)

S_style == <<115, 116, 121, 108, 101>>

\* the names among the model's tags that the pattern '<pre' begins
StartsWithPre(name) == name \in {"pre", "preview"}
\* the names among the model's tags that the pattern '<code' begins
StartsWithCode(name) == name \in {"code"}

AddStyle(tok, style) == [tok EXCEPT !.attrs = Append(@, Attr("style", style))]

\* re.sub(r'<pre([^>]*)>', ...) of markdown_renderer.py:147
StylePreTags(html) ==
    MapSeq(html, LAMBDA tok :
        IF tok.type = "open" /\ StartsWithPre(tok.name)
        THEN AddStyle(tok, PRE_STYLE) ELSE tok)

\* re.sub(r'<div class="codehilite"([^>]*)>', ...) of markdown_renderer.py:154
StyleCodehiliteDivs(html) ==
    MapSeq(html, LAMBDA tok :
        IF /\ tok.type = "open"
           /\ tok.name = "div"
           /\ tok.attrs # <<>>
           /\ tok.attrs[1] = Attr("class", S_codehilite)
        THEN AddStyle(tok, PRE_STYLE) ELSE tok)

\* re.sub(r'(<pre[^>]*>.*?)<code([^>]*)>', ..., flags=re.DOTALL) of
\* markdown_renderer.py:161: each match runs from a <pre to the first <code
\* after it, and the search goes on behind that <code.  So a <code is
\* styled when, going back from it, a <pre comes before any other <code
OpensPreOrCode(tok) ==
    /\ tok.type = "open"
    /\ StartsWithPre(tok.name) \/ StartsWithCode(tok.name)
LastIsPre(html, marks) == marks # {} /\ StartsWithPre(html[Max(marks)].name)
StyledCode(html, i) ==
    /\ html[i].type = "open"
    /\ StartsWithCode(html[i].name)
    /\ LastIsPre(html, {k \in 1..(i - 1) : OpensPreOrCode(html[k])})
StyleCodeTags(html) ==
    SubSeq([i \in 1..Len(html) |->
               IF StyledCode(html, i) THEN AddStyle(html[i], CODE_STYLE) ELSE html[i]],
           1, Len(html))

\* MarkdownRenderer._fix_code_block_styling
_fix_code_block_styling(html) ==
    StyleCodeTags(StyleCodehiliteDivs(StylePreTags(html)))

\* MarkdownRenderer._sanitize_html
_sanitize_html(html) == Join(Scan("bleach", html))

S_lang == <<101, 110>>
S_utf8 == <<85, 84, 70, 45, 56>>
S_viewport == <<118, 105, 101, 119, 112, 111, 114, 116>>
\* 'width=device-width, initial-scale=1.0'
S_viewport_content ==
    <<119, 105, 100, 116, 104, 61, 100, 101, 118, 105, 99, 101, 45, 119, 105, 100, 116, 104,
      44, 32, 105, 110, 105, 116, 105, 97, 108, 45, 115, 99, 97, 108, 101, 61, 49, 46, 48>>
\* 'Markdown Preview'
S_title == <<77, 97, 114, 107, 100, 111, 119, 110, 32, 80, 114, 101, 118, 105, 101, 119>>

\* the template of markdown_renderer.py:219 up to the body
DocumentHead(self) ==
    <<Doctype, Open("html", <<Attr("lang", S_lang)>>), Open("head", <<>>),
      Open("meta", <<Attr("charset", S_utf8)>>),
      Open("meta", <<Attr("name", S_viewport), Attr("content", S_viewport_content)>>),
      Open("title", <<>>), Text(S_title), Close("title"),
      Open("style", <<>>), Text(self.style_css \o <<10, 10>> \o self.pygments_css),
      Close("style"), Close("head"), Open("body", <<>>)>>

\* _create_html_document as it would be if it returned the body alone
BareBody(self, body_content) == Join(body_content)

\* MarkdownRenderer._create_html_document
_create_html_document(self, body_content) ==
    DocumentHead(self) \o Join(CleanHtmlTokens(Join(body_content)))
    \o <<Close("body"), Close("html")>>

\* 'Error rendering Markdown:'
S_error_rendering ==
    <<69, 114, 114, 111, 114, 32, 114, 101, 110, 100, 101, 114, 105, 110, 103, 32, 77, 97,
      114, 107, 100, 111, 119, 110, 58>>

\* the error fragment as it would be if it were left out
NoErrorHtml(cause) == <<>>

\* error_html of markdown_renderer.py:133; cause is str(e) as the fragment it
\* is once interpolated into the HTML
ErrorHtml(cause) ==
    <<Open("p", <<>>), Open("strong", <<>>), Text(S_error_rendering), Close("strong"),
      Text(<<32>>)>> \o cause \o <<Close("p")>>

\* the steps of render's try block at which the model lets an exception be
\* raised; "none" is a run without one
Faults == {"none", "normalize", "convert", "postprocess", "sanitize"}

\* the sanitising step as it would be if it did not look at the option
SanitizeAlways(html_content, sanitize) == _sanitize_html(html_content)

\* the sanitising step of markdown_renderer.py:125: only when asked for
SanitizeIfRequested(html_content, sanitize) ==
    IF sanitize THEN _sanitize_html(html_content) ELSE html_content

\* the try block of markdown_renderer.py:111-129: ok with the document, or
\* the exception.  md is the processor as the block leaves it, fixed the
\* post-processed fragment and body the fragment handed to the assembler
Raised(md) == [ok |-> FALSE, html |-> <<>>, md |-> md, fixed |-> <<>>, body |-> <<>>]
Assembled(self, md, fixed, html_content) ==
    [ok |-> TRUE, html |-> _create_html_document(self, html_content), md |-> md,
     fixed |-> fixed, body |-> html_content]
Sanitized(self, md, sanitize, fixed) ==
    Assembled(self, md, fixed, SanitizeIfRequested(fixed, sanitize))
PostProcessed(self, sanitize, fault, converted) ==
    IF fault.at = "postprocess" \/ (fault.at = "sanitize" /\ sanitize)
    THEN Raised(converted.md)
    ELSE Sanitized(self, converted.md, sanitize, _fix_code_block_styling(converted.html))
TryRender(self, markdown_text, sanitize, fault) ==
    IF fault.at \in {"normalize", "convert"}
    THEN Raised(MdReset(self.markdown_processor))
    ELSE PostProcessed(self, sanitize, fault,
                       MdConvert(MdReset(self.markdown_processor),
                                 CleanSource(markdown_text)))

\* MarkdownRenderer.render: the returned document (raised is whether the call
\* raised instead of returning), the branch it took, the renderer after it,
\* the post-processed fragment and the body handed to the assembler
Returned(self, attempt, error_html) ==
    IF attempt.ok
    THEN [raised |-> FALSE, path |-> "ok",
          self |-> [self EXCEPT !.markdown_processor = attempt.md],
          html |-> attempt.html, fixed |-> attempt.fixed, body |-> attempt.body]
    ELSE [raised |-> FALSE, path |-> "error",
          self |-> [self EXCEPT !.markdown_processor = attempt.md],
          html |-> _create_html_document(self, error_html),
          fixed |-> <<>>, body |-> error_html]
render(self, markdown_text, sanitize, fault) ==
    IF IsBlank(markdown_text)
    THEN [raised |-> FALSE, path |-> "blank", self |-> self,
          html |-> _create_html_document(self, <<>>), fixed |-> <<>>, body |-> <<>>]
    ELSE Returned(self, TryRender(self, markdown_text, sanitize, fault),
                  ErrorHtml(fault.cause))

\* MarkdownRenderer.get_toc: None is [some |-> FALSE]
NoToc == [some |-> FALSE, toc |-> <<>>]
get_toc(self) ==
    IF self.markdown_processor.toc # <<>> THEN [some |-> TRUE, toc |-> self.markdown_processor.toc] ELSE NoToc

(***************************************************************************)
(* The documents, faults and stylesheets the model draws its inputs from   *)
(***************************************************************************)

S_ok == <<111, 107>>
S_t == <<116>>
S_x == <<120>>
S_y == <<121>>
S_r == <<114>>
S_boom == <<98, 111, 111, 109>>
S_Section == <<83, 101, 99, 116, 105, 111, 110>>
S_alert == <<97, 108, 101, 114, 116, 40, 49, 41>>
S_javascript == <<106, 97, 118, 97, 115, 99, 114, 105, 112, 116, 58, 121>>
S_print == <<112, 114, 105, 110, 116, 40, 49, 41>>
\* 'Welcome to Markdown Viewer'
S_welcome ==
    <<87, 101, 108, 99, 111, 109, 101, 32, 116, 111, 32, 77, 97, 114, 107, 100, 111, 119,
      110, 32, 86, 105, 101, 119, 101, 114>>
\* 'Start editing to see the preview here.'
S_start_editing ==
    <<83, 116, 97, 114, 116, 32, 101, 100, 105, 116, 105, 110, 103, 32, 116, 111, 32, 115,
      101, 101, 32, 116, 104, 101, 32, 112, 114, 101, 118, 105, 101, 119, 32, 104, 101, 114,
      101, 46>>

\* ''
D_empty == <<>>
\* ' \n'
D_spaces == <<Para(<<>>, <<32, 10>>)>>
\* '\x01\x7f'
D_control == <<Para(<<>>, <<1, 127>>)>>
\* '# Section'
D_section == <<Heading(S_Section)>>
\* '# Section\n\n# Section'
D_twice == <<Heading(S_Section), Heading(S_Section)>>
\* '<script>alert(1)</script><p>ok</p>'
D_script ==
    <<RawHtml(<<Open("script", <<>>), Text(S_alert), Close("script"),
                Open("p", <<>>), Text(S_ok), Close("p")>>)>>
\* '<a href="x" onclick="y">t</a>'
D_onclick ==
    <<RawHtml(<<Open("a", <<Attr("href", S_x), Attr("onclick", S_y)>>), Text(S_t),
                Close("a")>>)>>
\* '<a href="javascript:y" id="x">t</a>'
D_jslink ==
    <<RawHtml(<<Open("a", <<Attr("href", S_javascript), Attr("id", S_x)>>), Text(S_t),
                Close("a")>>)>>
\* '[r]: http://r\n\nok'
D_refdef == <<RefDef(S_r), Para(<<>>, S_ok)>>
\* '[t][r]'
D_reflink == <<RefLink(S_t, S_r)>>
\* '**Error rendering Markdown:** boom'
D_errlike == <<Para(S_error_rendering, S_boom)>>
\* '```\nprint(1)\n```'
D_fence == <<Fence(S_print)>>
\* '```\na\u00b6b\n```'
D_fence_pilcrow == <<Fence(<<97, 182, 98>>)>>
\* '```\n<b>&para;"\n```'
D_fence_markup == <<Fence(<<60, 98, 62>> \o PARA_ENTITY \o <<34>>)>>
\* 'a¶b &para;'
D_pilcrow == <<Para(<<>>, <<97, 182, 98, 160>> \o PARA_ENTITY)>>
\* initial_content of markdown_preview.py:110
D_welcome == <<Heading(S_welcome), Para(<<>>, S_start_editing)>>


\* the stylesheets _load_style_css and _load_pygments_css return: the text of
\* the resource files, or '' when a file is missing or unreadable
S_style_css == <<112, 123, 125>>
S_pygments_css == <<46, 107, 123, 125>>
\* _load_style_css as it would be if it did not look whether the file is there
ReadStyleCss(found) == S_style_css
_load_style_css(found) == IF found THEN S_style_css ELSE <<>>
_load_pygments_css(found) == IF found THEN S_pygments_css ELSE <<>>

\* MarkdownRenderer.__init__
MarkdownRenderer(style_found, pygments_found) ==
    [markdown_processor |-> NewProcessor,
     style_css |-> _load_style_css(style_found),
     pygments_css |-> _load_pygments_css(pygments_found)]

NoFault == [at |-> "none", cause |-> <<>>]

(***************************************************************************)
(* QTimer, as MarkdownPreview uses it                                      *)
(***************************************************************************)

\* the delay of markdown_preview.py:150, in ms
UPDATE_DELAY == 100

\* the step of the clock, in ms
TickMs == UPDATE_DELAY \div 4

QTimer == [singleShot |-> FALSE, active |-> FALSE, interval |-> 0, remaining |-> 0]
\* setSingleShot as it would be if it had no effect
setSingleShotIgnored(timer, singleShot) == timer

setSingleShot(timer, singleShot) == [timer EXCEPT !.singleShot = singleShot]
stop(timer) == [timer EXCEPT !.active = FALSE]
\* start as it would be if it let a window that was interrupted run on
startKeepingDeadline(timer, msec) ==
    [timer EXCEPT !.active = TRUE, !.interval = msec,
                  !.remaining = IF timer.remaining > 0 THEN timer.remaining ELSE msec]

\* start(msec) restarts a timer that is running
start(timer, msec) ==
    [timer EXCEPT !.active = TRUE, !.interval = msec, !.remaining = msec]
\* the timer once its timeout signal is emitted: a single-shot timer stops,
\* any other starts its interval again
expire(timer) ==
    IF timer.singleShot THEN [timer EXCEPT !.active = FALSE]
    ELSE [timer EXCEPT !.remaining = timer.interval]

(***************************************************************************)
(* The vertical scroll bar of the QTextEdit, as MarkdownPreview uses it    *)
(***************************************************************************)

\* the bound of the scroll offsets: the viewport is taken to be lower than one
\* block, and a document scrolls one step for each of its blocks up to this
MaxScroll == 1

QScrollBar == [value |-> 0, maximum |-> 0]

\* the headings, paragraphs and code blocks of a document
Blocks(html) ==
    Cardinality({i \in 1..Len(html) :
                    html[i].type = "close" /\ html[i].name \in {"h1", "h2", "p", "pre"}})

\* the scroll bar once QTextEdit.setHtml has replaced the document: at the
\* top, with the range of the new document
setHtml(html) ==
    [value |-> 0, maximum |-> IF Blocks(html) > MaxScroll THEN MaxScroll ELSE Blocks(html)]

\* QScrollBar.setValue: the value is forced into the range
setValue(bar, value) ==
    [bar EXCEPT !.value = IF value > bar.maximum THEN bar.maximum ELSE value]

(***************************************************************************)
(* The editor, the main window, the zoom of the preview and the settings   *)
(* as they are once constructed                                            *)
(***************************************************************************)

\* debounce_delay of markdown_editor.py:241, in ms
DEBOUNCE_DELAY == 300

\* MarkdownEditor.__init__: no text, the debounce timer idle
MarkdownEditor ==
    [text |-> <<>>, debounce_timer |-> setSingleShot(QTimer, TRUE),
     debounce_delay |-> DEBOUNCE_DELAY]

\* current_file_path when it is None
None == 0

\* MainWindow.__init__ with nothing stored in the settings.  op is the handler
\* that ran last, reply what the user answered to its question, unsaved
\* whether the editor holds edits that were not saved
MainWindow ==
    [current_file_path |-> None, is_modified |-> FALSE, recent_files |-> <<>>,
     closed |-> FALSE, reply |-> "none"]

\* the zoom factors are held in units of 1/ZoomUnit
ZoomUnit == 10000
\* _base_font_size of markdown_preview.py:43
BASE_FONT_SIZE == 11

\* MarkdownPreview.__init__: _zoom_factor 1.0, and the font _setup_preview
\* sets.  zoom_changed is whether the last call emitted the signal
PreviewZoom == [_zoom_factor |-> ZoomUnit, pointSize |-> BASE_FONT_SIZE, zoom_changed |-> FALSE]

\* QSettings with nothing stored
QSettings == [recent_files |-> <<>>]

\* the bound of the number of files there are
MaxFiles == 6
\* the paths of the files there are, and one of a file that is gone
Paths == 1..MaxFiles
GonePath == MaxFiles + 1

\* '<script>alert(1)</script><p>ok</p>\n\na\u00b6', typed into the editor
D_typed == D_script \o <<Para(<<>>, <<97, 182>>)>>
\* the same text in a file read with the wrong encoding: '...a\u00c2\u00b6'
D_mojibake == D_script \o <<Para(<<>>, <<97, 194, 182>>)>>

(***************************************************************************)
(* MarkdownPreview: the content, the sanitize option, the update timer     *)
(* and the document shown                                                  *)
(***************************************************************************)

\* the bound of the counters that record a burst of change events
MaxBurst == 3

VARIABLES
    renderer,               \* the MarkdownRenderer
    _current_markdown,      \* MarkdownPreview._current_markdown
    sanitize_html,          \* MarkdownPreview._sanitize_html
    _update_timer,          \* MarkdownPreview._update_timer
    document,               \* the HTML the widget shows (setHtml)
    verticalScrollBar,      \* the widget's verticalScrollBar()
    editor,                 \* the MarkdownEditor
    main_window,            \* the MainWindow
    zoom,                   \* the zoom of the MarkdownPreview
    settings,               \* the QSettings of the SettingsManager
    toc_result,             \* what the last get_toc returned
    lastOp,                 \* the operation that ran last
    call,                   \* the arguments of the last render call
    result,                 \* what that call returned
    published,              \* the number of setHtml calls of the last handler
    sinceChange,            \* ms since the last change event, up to UPDATE_DELAY
    burst                   \* the change events since the timer was last idle

vars ==
    <<renderer, _current_markdown, sanitize_html, _update_timer, document,
      verticalScrollBar, editor, main_window, zoom, settings, toc_result, lastOp, call,
      result, published, sinceChange, burst>>

windowVars == <<editor, main_window, zoom, settings>>

\* the editor, the window, the zoom and the settings as constructed
Constructed ==
    /\ editor = MarkdownEditor
    /\ main_window = MainWindow
    /\ zoom = PreviewZoom
    /\ settings = QSettings

previewVars ==
    <<_current_markdown, sanitize_html, _update_timer, document, verticalScrollBar>>
scheduleVars == <<published, sinceChange, burst>>

AtMost(n, bound) == IF n > bound THEN bound ELSE n

\* '' as a Markdown source
IsEmpty(markdown_text) ==
    \A i \in 1..Len(markdown_text) :
        /\ markdown_text[i].kind = "para"
        /\ markdown_text[i].strong = <<>>
        /\ markdown_text[i].text = <<>>

\* what a render call leaves in result
Outcome(rendering) ==
    [raised |-> rendering.raised, path |-> rendering.path, html |-> rendering.html,
     fixed |-> rendering.fixed, body |-> rendering.body]

\* MarkdownPreview._perform_update on the content markdown_text: the rendering
\* and the document handed to setHtml
Updated(rendering) ==
    [rendering |-> rendering, html |-> Join(CleanHtmlTokens(rendering.html))]
_perform_update(self, markdown_text, sanitize) ==
    Updated(render(self, markdown_text, sanitize, NoFault))

\* the effect of _perform_update on the widget and on the record of the call
PerformUpdate(markdown_text, sanitize) ==
    \E update \in {_perform_update(renderer, markdown_text, sanitize)} :
        /\ renderer' = update.rendering.self
        /\ document' = update.html
        /\ verticalScrollBar' = setValue(setHtml(update.html), verticalScrollBar.value)
        /\ call' = [text |-> markdown_text, sanitize |-> sanitize, fault |-> NoFault]
        /\ result' = Outcome(update.rendering)
        /\ published' = 1

\* the burst once a handler other than the timer's has run: it has rendered
\* ("render") or has also written the content ("write")
Interleave(kind) ==
    IF _update_timer.active /\ (kind = "write" \/ burst.interleaved = "none")
    THEN [burst EXCEPT !.interleaved = kind] ELSE burst

\* MarkdownPreview.__init__: _setup_preview renders the welcome text
Init ==
    \E rendering \in {render(MarkdownRenderer(TRUE, TRUE), D_welcome, FALSE, NoFault)} :
        /\ renderer = rendering.self
        /\ _current_markdown = D_empty
        /\ sanitize_html = FALSE
        /\ _update_timer = setSingleShot(QTimer, TRUE)
        /\ document = rendering.html
        /\ verticalScrollBar = setHtml(rendering.html)
        /\ Constructed
        /\ toc_result = NoToc
        /\ lastOp = "init"
        /\ call = [text |-> D_welcome, sanitize |-> FALSE, fault |-> NoFault]
        /\ result = Outcome(rendering)
        /\ published = 1
        /\ sinceChange = UPDATE_DELAY
        /\ burst = [events |-> 0, fired |-> 0, content |-> D_empty, interleaved |-> "none"]

\* MarkdownPreview.set_markdown_content
SetMarkdownContent(markdown_text, immediate) ==
    /\ _current_markdown' = markdown_text
    /\ IF immediate
       THEN /\ PerformUpdate(markdown_text, sanitize_html)
            /\ lastOp' = "immediate"
            /\ burst' = Interleave("write")
            /\ UNCHANGED <<_update_timer, sinceChange>>
       ELSE /\ _update_timer' = start(stop(_update_timer), UPDATE_DELAY)
            /\ lastOp' = "change"
            /\ published' = 0
            /\ sinceChange' = 0
            /\ burst' = [events |-> IF _update_timer.active
                                    THEN AtMost(burst.events + 1, MaxBurst) ELSE 1,
                         fired |-> 0, content |-> markdown_text, interleaved |-> "none"]
            /\ UNCHANGED <<renderer, document, verticalScrollBar, call, result>>
    /\ UNCHANGED <<sanitize_html, toc_result>>

\* the expiry as it would be if it rendered the content of the last change
\* event
TimeoutOnEventContent ==
    /\ _update_timer.active
    /\ _update_timer.remaining = 0
    /\ _update_timer' = expire(_update_timer)
    /\ PerformUpdate(burst.content, sanitize_html)
    /\ lastOp' = "timeout"
    /\ burst' = [burst EXCEPT !.fired = AtMost(@ + 1, MaxBurst)]
    /\ UNCHANGED <<_current_markdown, sanitize_html, toc_result, sinceChange>>

\* the timeout signal of _update_timer, connected to _perform_update
Timeout ==
    /\ _update_timer.active
    /\ _update_timer.remaining = 0
    /\ _update_timer' = expire(_update_timer)
    /\ PerformUpdate(_current_markdown, sanitize_html)
    /\ lastOp' = "timeout"
    /\ burst' = [burst EXCEPT !.fired = AtMost(@ + 1, MaxBurst)]
    /\ UNCHANGED <<_current_markdown, sanitize_html, toc_result, sinceChange>>

\* TickMs pass.  The handlers run on the one thread of the event loop, so a
\* timer that is due fires before more time passes
Tick ==
    /\ ~(_update_timer.active /\ _update_timer.remaining = 0)
    /\ _update_timer' = IF _update_timer.active
                        THEN [_update_timer EXCEPT !.remaining = @ - TickMs]
                        ELSE _update_timer
    /\ sinceChange' = AtMost(sinceChange + TickMs, UPDATE_DELAY)
    /\ lastOp' = "tick"
    /\ published' = 0
    /\ UNCHANGED <<renderer, _current_markdown, sanitize_html, document,
                   verticalScrollBar, toc_result, call, result, burst>>

\* MarkdownPreview.set_sanitize_html
SetSanitizeHtml(sanitize) ==
    /\ lastOp' = "sanitize"
    /\ sanitize_html' = sanitize
    /\ IF sanitize_html # sanitize /\ ~IsEmpty(_current_markdown)
       THEN /\ PerformUpdate(_current_markdown, sanitize)
            /\ burst' = Interleave("render")
       ELSE /\ published' = 0
            /\ UNCHANGED <<renderer, document, verticalScrollBar, call, result, burst>>
    /\ UNCHANGED <<_current_markdown, _update_timer, toc_result, sinceChange>>

\* refresh_content as it would be if it cancelled the pending update
RefreshContentCancelling ==
    /\ PerformUpdate(_current_markdown, sanitize_html)
    /\ _update_timer' = stop(_update_timer)
    /\ lastOp' = "refresh"
    /\ burst' = Interleave("render")
    /\ UNCHANGED <<_current_markdown, sanitize_html, toc_result, sinceChange>>

\* MarkdownPreview.refresh_content
RefreshContent ==
    /\ PerformUpdate(_current_markdown, sanitize_html)
    /\ lastOp' = "refresh"
    /\ burst' = Interleave("render")
    /\ UNCHANGED <<_current_markdown, sanitize_html, _update_timer, toc_result, sinceChange>>

\* MarkdownPreview.clear_content
ClearContent ==
    \E rendering \in {render(renderer, D_empty, FALSE, NoFault)} :
        /\ _current_markdown' = D_empty
        /\ renderer' = rendering.self
        /\ document' = rendering.html
        /\ verticalScrollBar' = setHtml(rendering.html)
        /\ call' = [text |-> D_empty, sanitize |-> FALSE, fault |-> NoFault]
        /\ result' = Outcome(rendering)
        /\ published' = 1
        /\ lastOp' = "clear"
        /\ burst' = Interleave("write")
        /\ UNCHANGED <<sanitize_html, _update_timer, toc_result, sinceChange>>

\* the texts the editor sends to the preview
PreviewDocs == {D_section, D_script}

Next ==
    \/ \E markdown_text \in PreviewDocs, immediate \in BOOLEAN :
           SetMarkdownContent(markdown_text, immediate) /\ UNCHANGED windowVars
    \/ Timeout /\ UNCHANGED windowVars
    \/ Tick /\ UNCHANGED windowVars
    \/ \E sanitize \in BOOLEAN : SetSanitizeHtml(sanitize) /\ UNCHANGED windowVars
    \/ RefreshContent /\ UNCHANGED windowVars
    \/ ClearContent /\ UNCHANGED windowVars

Spec == Init /\ [][Next]_vars

(***************************************************************************)
(* MarkdownRenderer on its own: any sequence of render and get_toc calls   *)
(***************************************************************************)

InitRender ==
    /\ \E style_found \in BOOLEAN, pygments_found \in BOOLEAN :
        /\ renderer = MarkdownRenderer(style_found, pygments_found)
        /\ call = [text |-> D_empty, sanitize |-> FALSE, fault |-> NoFault,
                   style_found |-> style_found, pygments_found |-> pygments_found]
    /\ _current_markdown = D_empty
    /\ sanitize_html = FALSE
    /\ _update_timer = setSingleShot(QTimer, TRUE)
    /\ document = <<>>
    /\ verticalScrollBar = QScrollBar
    /\ Constructed
    /\ toc_result = NoToc
    /\ lastOp = "init"
    /\ result = [raised |-> FALSE, path |-> "none", html |-> <<>>, fixed |-> <<>>,
                 body |-> <<>>]
    /\ published = 0
    /\ sinceChange = UPDATE_DELAY
    /\ burst = [events |-> 0, fired |-> 0, content |-> D_empty, interleaved |-> "none"]

\* the documents handed to render
Docs ==
    {D_empty, D_spaces, D_control, D_section, D_script, D_onclick, D_jslink,
     D_refdef, D_reflink, D_errlike, D_fence, D_fence_pilcrow, D_fence_markup}

\* the documents whose rendering the model lets fail
FailingDocs == {D_section, D_reflink}

\* str(e) of the exceptions: 'boom' and '<script>alert(1)</script>'
Causes == {<<Text(S_boom)>>, <<Open("script", <<>>), Text(S_alert), Close("script")>>}

FaultCases ==
    {NoFault} \cup {[at |-> at, cause |-> cause] : at \in Faults \ {"none"}, cause \in Causes}

\* a call of MarkdownRenderer.render, with the exception a step of it raises
Render(markdown_text, sanitize, fault) ==
    /\ fault.at = "sanitize" => sanitize
    /\ fault # NoFault => markdown_text \in FailingDocs
    /\ \E rendering \in {render(renderer, markdown_text, sanitize, fault)} :
        /\ renderer' = rendering.self
        /\ call' = [call EXCEPT !.text = markdown_text, !.sanitize = sanitize,
                                !.fault = fault]
        /\ result' = Outcome(rendering)
        /\ lastOp' = "render"
        /\ UNCHANGED <<previewVars, windowVars, toc_result, scheduleVars>>

\* MarkdownRenderer.get_toc
GetToc ==
    /\ toc_result' = get_toc(renderer)
    /\ lastOp' = "get_toc"
    /\ UNCHANGED <<renderer, previewVars, windowVars, call, result, scheduleVars>>

NextRender ==
    \/ \E markdown_text \in Docs, sanitize \in BOOLEAN, fault \in FaultCases :
           Render(markdown_text, sanitize, fault)
    \/ GetToc

SpecRender == InitRender /\ [][NextRender]_vars
(***************************************************************************)
(* The normalisers of utils/text_cleaner.py on their own: a text, clean_text *)
(* or clean_html applied to it, and the same function applied to the output  *)
(***************************************************************************)

\* the bound of the number of pieces a text is put together from
MaxPieces == 3

\* '&pa' and 'ra;', the halves of '&para;'
S_amp_pa == <<38, 112, 97>>
S_ra_semi == <<114, 97, 59>>
\* U+1F468 U+200D U+1F469
S_family == <<128104, 8205, 128105>>

\* the pieces: a, the pilcrow, the halves of an entity, the entity, \r, \n,
\* COMBINING ACUTE ACCENT, ZERO WIDTH SPACE, ZERO WIDTH JOINER
Pieces ==
    {<<97>>, <<182>>, S_amp_pa, S_ra_semi, PARA_ENTITY, <<13>>, <<10>>, <<769>>, <<8203>>,
     <<8205>>}

RECURSIVE TextsOf(_)
TextsOf(n) ==
    IF n = 0 THEN {<<>>}
    ELSE TextsOf(n - 1) \cup {piece \o text : piece \in Pieces, text \in TextsOf(n - 1)}

\* texts of the characters the cleaners name, beside those of pieces
Examples ==
    {S_family, <<97, 182, 98>>, <<8203, 8204, 65279>>, PARA_NUMERIC, PARA_HEX,
     <<97, 160, 8232, 65533, 1, 8288>>, <<8491, 65, 778>>, <<13, 8232, 97>>,
     <<9, 127, 133, 8233, 31, 32>>}

Texts == TextsOf(MaxPieces) \cup Examples

InitText ==
    /\ renderer = MarkdownRenderer(TRUE, TRUE)
    /\ _current_markdown = D_empty
    /\ sanitize_html = FALSE
    /\ _update_timer = setSingleShot(QTimer, TRUE)
    /\ document = <<>>
    /\ verticalScrollBar = QScrollBar
    /\ Constructed
    /\ toc_result = NoToc
    /\ lastOp = "init"
    /\ \E text \in Texts : call = [fn |-> "none", text |-> text]
    /\ result = [out |-> <<>>, again |-> <<>>]
    /\ published = 0
    /\ sinceChange = UPDATE_DELAY
    /\ burst = [events |-> 0, fired |-> 0, content |-> D_empty, interleaved |-> "none"]

textVars ==
    <<renderer, _current_markdown, sanitize_html, _update_timer, document,
      verticalScrollBar, editor, main_window, zoom, settings, toc_result, published,
      sinceChange, burst>>

\* clean_text(text)
CleanText ==
    /\ lastOp = "init"
    /\ lastOp' = "clean"
    /\ call' = [call EXCEPT !.fn = "clean_text"]
    /\ result' = [out |-> clean_text(call.text), again |-> <<>>]
    /\ UNCHANGED textVars

\* clean_html(text)
CleanHtml ==
    /\ lastOp = "init"
    /\ lastOp' = "clean"
    /\ call' = [call EXCEPT !.fn = "clean_html"]
    /\ result' = [out |-> clean_html(call.text), again |-> <<>>]
    /\ UNCHANGED textVars

\* the same function applied to what it returned
CleanAgain ==
    /\ lastOp = "clean"
    /\ lastOp' = "again"
    /\ result' = [result EXCEPT !.again = IF call.fn = "clean_text" THEN clean_text(result.out)
                                          ELSE clean_html(result.out)]
    /\ UNCHANGED <<call, textVars>>

NextText == CleanText \/ CleanHtml \/ CleanAgain

SpecText == InitText /\ [][NextText]_vars

(***************************************************************************)
(* The post-processor and the assembler of utils/markdown_renderer.py on   *)
(* their own: an HTML fragment, and _fix_code_block_styling or             *)
(* _create_html_document applied to it                                     *)
(***************************************************************************)

\* the bound of the number of elements a fragment is put together from
MaxElements == 2

S_id == <<120>>
\* '&pa&para;ra;'
S_split_entity == S_amp_pa \o PARA_ENTITY \o S_ra_semi

\* <pre><code>a</code></pre>
E_pre == <<Open("pre", <<>>), Open("code", <<>>), Text(<<97>>), Close("code"), Close("pre")>>
\* <pre><code>a</code><code>b</code></pre>
E_pre_two ==
    <<Open("pre", <<>>), Open("code", <<>>), Text(<<97>>), Close("code"),
      Open("code", <<>>), Text(<<98>>), Close("code"), Close("pre")>>
\* <div class="codehilite"><pre><span></span><code>a</code></pre></div>
E_codehilite ==
    <<Open("div", <<Attr("class", S_codehilite)>>), Open("pre", <<>>),
      Open("span", <<>>), Close("span"), Open("code", <<>>), Text(<<97>>),
      Close("code"), Close("pre"), Close("div")>>
\* <div id="x" class="codehilite">a</div>
E_codehilite_id ==
    <<Open("div", <<Attr("id", S_id), Attr("class", S_codehilite)>>), Text(<<97>>),
      Close("div")>>
\* <preview>a</preview>
E_preview == <<Open("preview", <<>>), Text(<<97>>), Close("preview")>>
\* <p><code>a</code></p>
E_inline == <<Open("p", <<>>), Open("code", <<>>), Text(<<97>>), Close("code"), Close("p")>>
\* <p>a¶b&para;&#182;&#x00B6;</p>
E_pilcrows ==
    <<Open("p", <<>>), Text(<<97, 182, 98>> \o PARA_ENTITY \o PARA_NUMERIC \o PARA_HEX),
      Close("p")>>
\* <p>&pa&para;ra;</p>
E_split == <<Open("p", <<>>), Text(S_split_entity), Close("p")>>
\* <p title="&para;">a</p>
E_title == <<Open("p", <<Attr("title", PARA_ENTITY)>>), Text(<<97>>), Close("p")>>

Elements ==
    {E_pre, E_pre_two, E_codehilite, E_codehilite_id, E_preview, E_inline, E_pilcrows,
     E_split, E_title}

RECURSIVE FragmentsOf(_)
FragmentsOf(n) ==
    IF n = 0 THEN {<<>>}
    ELSE FragmentsOf(n - 1)
         \cup {element \o html : element \in Elements, html \in FragmentsOf(n - 1)}

Fragments == FragmentsOf(MaxElements)

InitFragment ==
    /\ \E found \in BOOLEAN : renderer = MarkdownRenderer(found, found)
    /\ _current_markdown = D_empty
    /\ sanitize_html = FALSE
    /\ _update_timer = setSingleShot(QTimer, TRUE)
    /\ document = <<>>
    /\ verticalScrollBar = QScrollBar
    /\ Constructed
    /\ toc_result = NoToc
    /\ lastOp = "init"
    /\ \E html \in Fragments : call = [fn |-> "none", html |-> html]
    /\ result = [blocks |-> <<>>, out |-> <<>>]
    /\ published = 0
    /\ sinceChange = UPDATE_DELAY
    /\ burst = [events |-> 0, fired |-> 0, content |-> D_empty, interleaved |-> "none"]

\* self._fix_code_block_styling(html_content); blocks is the fragment after
\* the two substitutions of markdown_renderer.py:146-158, out the one returned
FixCodeBlockStyling ==
    /\ lastOp = "init"
    /\ lastOp' = "fix"
    /\ call' = [call EXCEPT !.fn = "_fix_code_block_styling"]
    /\ result' = [blocks |-> StyleCodehiliteDivs(StylePreTags(call.html)),
                  out |-> _fix_code_block_styling(call.html)]
    /\ UNCHANGED textVars

\* self._create_html_document(body_content)
CreateHtmlDocument ==
    /\ lastOp = "init"
    /\ lastOp' = "assemble"
    /\ call' = [call EXCEPT !.fn = "_create_html_document"]
    /\ result' = [blocks |-> <<>>, out |-> _create_html_document(renderer, call.html)]
    /\ UNCHANGED textVars

NextFragment == FixCodeBlockStyling \/ CreateHtmlDocument

SpecFragment == InitFragment /\ [][NextFragment]_vars
(***************************************************************************)
(* MarkdownPreview with a user who scrolls, and with a setHtml that fails  *)
(***************************************************************************)

\* 'Preview Error'
S_preview_error == <<80, 114, 101, 118, 105, 101, 119, 32, 69, 114, 114, 111, 114>>
\* 'Could not render Markdown: '
S_could_not_render ==
    <<67, 111, 117, 108, 100, 32, 110, 111, 116, 32, 114, 101, 110, 100, 101, 114, 32, 77,
      97, 114, 107, 100, 111, 119, 110, 58, 32>>

\* error_html of markdown_preview.py:175
PreviewError(cause) ==
    <<Open("h1", <<>>), Text(S_preview_error), Close("h1"),
      Open("p", <<>>), Text(S_could_not_render \o cause), Close("p")>>

\* the user scrolls the preview (wheelEvent, keyPressEvent: the scrolling of
\* QTextEdit)
Scroll(value) ==
    /\ value # verticalScrollBar.value
    /\ verticalScrollBar' = setValue(verticalScrollBar, value)
    /\ lastOp' = "scroll"
    /\ published' = 0
    /\ UNCHANGED <<renderer, _current_markdown, sanitize_html, _update_timer, document,
                   windowVars, toc_result, call, result, sinceChange, burst>>

\* refresh_content when setHtml(cleaned_html) raises: the except block of
\* markdown_preview.py:173-176 shows the error page
RefreshContentFailing(cause) ==
    \E rendering \in {render(renderer, _current_markdown, sanitize_html, NoFault)} :
        /\ renderer' = rendering.self
        /\ document' = PreviewError(cause)
        /\ verticalScrollBar' = setHtml(PreviewError(cause))
        /\ call' = [text |-> _current_markdown, sanitize |-> sanitize_html, fault |-> NoFault]
        /\ result' = Outcome(rendering)
        /\ published' = 1
        /\ lastOp' = "refresh failed"
        /\ burst' = Interleave("render")
        /\ UNCHANGED <<_current_markdown, sanitize_html, _update_timer, windowVars,
                       toc_result, sinceChange>>

\* the texts the editor sends to the preview while the user scrolls
ScrollDocs == {D_section}

NextScroll ==
    \/ \E markdown_text \in ScrollDocs, immediate \in BOOLEAN :
           SetMarkdownContent(markdown_text, immediate) /\ UNCHANGED windowVars
    \/ Timeout /\ UNCHANGED windowVars
    \/ Tick /\ UNCHANGED windowVars
    \/ \E sanitize \in BOOLEAN : SetSanitizeHtml(sanitize) /\ UNCHANGED windowVars
    \/ RefreshContent /\ UNCHANGED windowVars
    \/ ClearContent /\ UNCHANGED windowVars
    \/ \E value \in 0..MaxScroll : Scroll(value)
    \/ RefreshContentFailing(S_boom)

SpecScroll == Init /\ [][NextScroll]_vars
(***************************************************************************)
(* The zoom of MarkdownPreview: any sequence of zoom calls                 *)
(***************************************************************************)

\* _min_zoom 0.25, _max_zoom 5.0 and _zoom_step 0.1 of markdown_preview.py:40-42
MIN_ZOOM == ZoomUnit \div 4
MAX_ZOOM == 5 * ZoomUnit
ZOOM_STEP == ZoomUnit \div 10
\* the 0.001 of markdown_preview.py:225
ZOOM_TOLERANCE == ZoomUnit \div 1000
\* the limits of the font size, markdown_preview.py:246
MIN_POINT_SIZE == 6
MAX_POINT_SIZE == 72

\* MarkdownPreview._apply_zoom: the point size set for the factor
_apply_zoom(factor) ==
    Max({MIN_POINT_SIZE, Min({MAX_POINT_SIZE, (BASE_FONT_SIZE * factor) \div ZoomUnit})})

\* set_zoom_factor as it would be if it took the factor as it is given
Unclamped(factor) == factor
\* the factor set_zoom_factor goes on with
Clamped(factor) == Max({MIN_ZOOM, Min({factor, MAX_ZOOM})})

\* MarkdownPreview.set_zoom_factor
Zoomed(self, factor) ==
    IF self._zoom_factor - factor > ZOOM_TOLERANCE \/ factor - self._zoom_factor > ZOOM_TOLERANCE
    THEN [_zoom_factor |-> factor, pointSize |-> _apply_zoom(factor), zoom_changed |-> TRUE]
    ELSE [self EXCEPT !.zoom_changed = FALSE]
set_zoom_factor(self, factor) == Zoomed(self, Clamped(factor))

\* MarkdownPreview.zoom_in, zoom_out, zoom_reset
zoom_in(self) == set_zoom_factor(self, Min({self._zoom_factor + ZOOM_STEP, MAX_ZOOM}))
zoom_out(self) == set_zoom_factor(self, Max({self._zoom_factor - ZOOM_STEP, MIN_ZOOM}))
zoom_reset(self) == set_zoom_factor(self, ZoomUnit)

\* the factors asked for: negative, 0, around the limits and around 1.0
ZoomRequests ==
    {0 - ZoomUnit, 0, MIN_ZOOM - 5, MIN_ZOOM, MIN_ZOOM + 5, ZoomUnit, ZoomUnit + 5,
     ZoomUnit + 15, MAX_ZOOM - 5, MAX_ZOOM, 100 * ZoomUnit}

\* a zoom call leaves everything but the zoom as it is
ZoomCall(op, zoomed) ==
    /\ zoom' = zoomed
    /\ lastOp' = op
    /\ UNCHANGED <<renderer, previewVars, editor, main_window, settings, toc_result, call,
                   result, scheduleVars>>

ZoomIn == ZoomCall("zoom_in", zoom_in(zoom))
ZoomOut == ZoomCall("zoom_out", zoom_out(zoom))
ZoomReset == ZoomCall("zoom_reset", zoom_reset(zoom))
SetZoomFactor(factor) == ZoomCall("set_zoom_factor", set_zoom_factor(zoom, factor))

NextZoom ==
    \/ ZoomIn
    \/ ZoomOut
    \/ ZoomReset
    \/ \E factor \in ZoomRequests : SetZoomFactor(factor)

SpecZoom == Init /\ [][NextZoom]_vars

(***************************************************************************)
(* The recent files of SettingsManager                                     *)
(***************************************************************************)

\* the number of recent files kept, settings.py:59 and settings.py:88
MAX_RECENT_FILES == 5

\* SettingsManager.save_recent_files: the settings after it
save_recent_files(self, files) ==
    [self EXCEPT !.recent_files =
        IF Len(files) > MAX_RECENT_FILES
        THEN SubSeq(files, Len(files) - MAX_RECENT_FILES + 1, Len(files)) ELSE files]

\* SettingsManager.restore_recent_files
restore_recent_files(self) == SelectSeq(self.recent_files, LAMBDA f : f \in Paths)

\* the list add_recent_file makes of the restored one
WithNewest(recent_files, file_path) ==
    SubSeq(<<file_path>> \o SelectSeq(recent_files, LAMBDA f : f # file_path), 1,
           Min({MAX_RECENT_FILES, 1 + Len(SelectSeq(recent_files, LAMBDA f : f # file_path))}))

\* SettingsManager.add_recent_file: the list returned
add_recent_file(self, file_path) == WithNewest(restore_recent_files(self), file_path)

\* the lists of n files, newest first
Newest(n) == [i \in 1..n |-> n + 1 - i]

\* a call of the settings manager leaves everything else as it is
RecentCall(op, files, stored, recent_files) ==
    /\ settings' = stored
    /\ main_window' = [main_window EXCEPT !.recent_files = recent_files]
    /\ call' = [fn |-> op, files |-> files]
    /\ lastOp' = op
    /\ UNCHANGED <<renderer, previewVars, editor, zoom, toc_result, result, scheduleVars>>

\* self.recent_files = self.settings_manager.add_recent_file(file_path)
AddRecentFile(file_path) ==
    RecentCall("add_recent_file", <<file_path>>,
               save_recent_files(settings, add_recent_file(settings, file_path)),
               add_recent_file(settings, file_path))

\* self.settings_manager.save_recent_files(files)
SaveRecentFiles(files) ==
    RecentCall("save_recent_files", files, save_recent_files(settings, files),
               main_window.recent_files)

\* self.recent_files = self.settings_manager.restore_recent_files()
RestoreRecentFiles ==
    RecentCall("restore_recent_files", <<>>, settings, restore_recent_files(settings))

NextRecent ==
    \/ \E file_path \in Paths \cup {GonePath} : AddRecentFile(file_path)
    \/ SaveRecentFiles(main_window.recent_files)
    \/ \E n \in 0..MaxFiles : SaveRecentFiles(Newest(n))
    \/ RestoreRecentFiles

SpecRecent == Init /\ [][NextRecent]_vars
(***************************************************************************)
(* MainWindow: the editor, the preview and the files, with the user's      *)
(* edits, the menu actions and the two debounce timers                     *)
(***************************************************************************)

\* text.replace('¶', '').replace('¶', '') of _emit_text_changed_debounced
PilcrowFree(text) == RemoveChar(RemoveChar(text, 182), 182)
RemovePilcrow(markdown_text) ==
    MapSeq(markdown_text, LAMBDA block :
        [block EXCEPT !.text = PilcrowFree(@),
                      !.strong = PilcrowFree(@),
                      !.html = MapTokens(@, PilcrowFree)])

\* content.replace('Â¶', '').replace('¶', '') of open_file and
\* _save_to_file
MojibakeFree(text) == RemoveChar(ReplaceSub(text, <<194, 182>>, <<>>), 182)
RemoveMojibake(content) ==
    MapSeq(content, LAMBDA block :
        [block EXCEPT !.text = MojibakeFree(@),
                      !.strong = MojibakeFree(@),
                      !.html = MapTokens(@, MojibakeFree)])

\* QPlainTextEdit.setPlainText and clear: the text is replaced, and textChanged,
\* if emitted, runs _on_text_changed, which restarts the debounce timer
setPlainText(self, text, emits) ==
    [self EXCEPT !.text = text,
                 !.debounce_timer = IF emits THEN start(stop(@), self.debounce_delay)
                                    ELSE @]

\* replacing the text by a different one emits textChanged; Qt is not held
\* to emit it when the text stays the same
Emits(text, emits) == text # editor.text => emits

\* the reply to _confirm_discard_changes, which is asked only when
\* is_modified
Asked(reply) == IF main_window.is_modified THEN reply ELSE "none"

\* a handler that returns without having changed anything
ReturnsEarly(op, reply) ==
    /\ main_window' = [main_window EXCEPT !.reply = reply]
    /\ lastOp' = op
    /\ published' = 0
    /\ UNCHANGED <<renderer, previewVars, editor, zoom, settings, toc_result, call,
                   result, sinceChange, burst>>

\* the timer after ms more
Elapsed(timer, ms) ==
    IF timer.active THEN [timer EXCEPT !.remaining = Max({0, @ - ms})] ELSE timer
Due(timer) == timer.active /\ timer.remaining = 0

\* the user changes the text in the editor: textChanged runs _on_text_changed
\* and _on_text_modified
TypeText(text) ==
    /\ ~main_window.closed
    /\ text # editor.text
    /\ editor' = setPlainText(editor, text, TRUE)
    /\ main_window' = [main_window EXCEPT !.is_modified = TRUE, !.reply = "none"]
    /\ lastOp' = "edit"
    /\ published' = 0
    /\ UNCHANGED <<renderer, previewVars, zoom, settings, toc_result, call, result,
                   sinceChange, burst>>

\* the timeout of debounce_timer as it would be if its signal were not
\* connected to the preview
EditorTimeoutUnconnected ==
    /\ ~main_window.closed
    /\ Due(editor.debounce_timer)
    /\ editor' = [editor EXCEPT !.debounce_timer = expire(@)]
    /\ main_window' = [main_window EXCEPT !.reply = "none"]
    /\ lastOp' = "change"
    /\ published' = 0
    /\ UNCHANGED <<renderer, previewVars, zoom, settings, toc_result, call, result,
                   sinceChange, burst>>

\* the timeout of debounce_timer: _emit_text_changed_debounced, whose signal
\* runs _on_editor_text_changed
EditorTimeout ==
    /\ ~main_window.closed
    /\ Due(editor.debounce_timer)
    /\ editor' = [editor EXCEPT !.debounce_timer = expire(@)]
    /\ main_window' = [main_window EXCEPT !.reply = "none"]
    /\ SetMarkdownContent(RemovePilcrow(editor.text), FALSE)
    /\ UNCHANGED <<zoom, settings>>

\* the timeout of the preview's _update_timer
PreviewTimeout ==
    /\ ~main_window.closed
    /\ main_window' = [main_window EXCEPT !.reply = "none"]
    /\ Timeout
    /\ UNCHANGED <<editor, zoom, settings>>

\* the time until the next timer is due, UPDATE_DELAY with no timer running
NextDue ==
    Min({UPDATE_DELAY} \cup {timer.remaining : timer \in {timer \in {editor.debounce_timer, _update_timer} :
                                         timer.active}})

\* time passes until the next timer is due
WindowTick ==
    /\ ~main_window.closed
    /\ ~Due(editor.debounce_timer)
    /\ ~Due(_update_timer)
    /\ editor' = [editor EXCEPT !.debounce_timer = Elapsed(@, NextDue)]
    /\ _update_timer' = Elapsed(_update_timer, NextDue)
    /\ sinceChange' = AtMost(sinceChange + NextDue, UPDATE_DELAY)
    /\ main_window' = [main_window EXCEPT !.reply = "none"]
    /\ lastOp' = "tick"
    /\ published' = 0
    /\ UNCHANGED <<renderer, _current_markdown, sanitize_html, document, verticalScrollBar,
                   zoom, settings, toc_result, call, result, burst>>

\* MainWindow._toggle_sanitize_html
ToggleSanitizeHtml(checked) ==
    /\ ~main_window.closed
    /\ main_window' = [main_window EXCEPT !.reply = "none"]
    /\ SetSanitizeHtml(checked)
    /\ UNCHANGED <<editor, zoom, settings>>

\* new_file as it would be if it did not ask
NewFileUnasked(reply, emits) ==
    /\ ~main_window.closed
    /\ Emits(D_empty, emits)
    /\ editor' = setPlainText(editor, D_empty, emits)
    /\ main_window' = [main_window EXCEPT !.current_file_path = None,
                                          !.is_modified = emits,
                                          !.reply = "none"]
    /\ ClearContent
    /\ UNCHANGED <<zoom, settings>>

\* MainWindow.new_file; is_modified is set to False before editor.clear(),
\* whose textChanged runs _on_text_modified
NewFile(reply, emits) ==
    /\ ~main_window.closed
    /\ IF main_window.is_modified /\ reply # "yes"
       THEN ReturnsEarly("declined", reply)
       ELSE /\ Emits(D_empty, emits)
            /\ editor' = setPlainText(editor, D_empty, emits)
            /\ main_window' = [main_window EXCEPT !.current_file_path = None,
                                                  !.is_modified = emits,
                                                  !.reply = Asked(reply)]
            /\ ClearContent
            /\ UNCHANGED <<zoom, settings>>

\* open_file once the file has been read: is_modified is set to False after
\* editor.setPlainText
Opened(file_path, reply, emits, content) ==
    /\ Emits(content, emits)
    /\ editor' = setPlainText(editor, content, emits)
    /\ SetMarkdownContent(content, TRUE)
    /\ main_window' = [main_window EXCEPT !.current_file_path = file_path,
                                          !.is_modified = FALSE,
                                          !.recent_files = add_recent_file(settings, file_path),
                                          !.reply = Asked(reply)]
    /\ settings' = save_recent_files(settings, add_recent_file(settings, file_path))
    /\ UNCHANGED zoom

\* MainWindow.open_file, from the dialog, the recent-files menu or the
\* command line; content is what the file holds
OpenFile(file_path, content, reply, raises, emits) ==
    /\ ~main_window.closed
    /\ IF main_window.is_modified /\ reply # "yes"
       THEN ReturnsEarly("declined", reply)
       ELSE IF file_path \notin Paths \/ raises
       THEN ReturnsEarly("failed", Asked(reply))
       ELSE Opened(file_path, reply, emits, RemoveMojibake(content))

\* MainWindow._save_to_file; what is written to the file is not kept
SaveToFile(file_path) ==
    /\ main_window' = [main_window EXCEPT !.current_file_path = file_path,
                                          !.is_modified = FALSE,
                                          !.recent_files = add_recent_file(settings, file_path),
                                          !.reply = "none"]
    /\ settings' = save_recent_files(settings, add_recent_file(settings, file_path))
    /\ lastOp' = "save_file"
    /\ published' = 0
    /\ UNCHANGED <<renderer, previewVars, editor, zoom, toc_result, call, result,
                   sinceChange, burst>>

\* MainWindow.save_file: without a current file the dialog of save_file_as
\* gives the path, or None when it is cancelled
SaveFile(chosen, raises) ==
    /\ ~main_window.closed
    /\ IF main_window.current_file_path # None
       THEN IF raises THEN ReturnsEarly("failed", "none")
            ELSE SaveToFile(main_window.current_file_path)
       ELSE IF chosen = None \/ raises THEN ReturnsEarly("failed", "none")
            ELSE SaveToFile(chosen)

\* MainWindow.closeEvent
CloseEvent(reply) ==
    /\ ~main_window.closed
    /\ IF main_window.is_modified /\ reply # "yes"
       THEN ReturnsEarly("declined", reply)
       ELSE /\ main_window' = [main_window EXCEPT !.closed = TRUE, !.reply = Asked(reply)]
            /\ settings' = save_recent_files(settings, main_window.recent_files)
            /\ lastOp' = "close"
            /\ published' = 0
            /\ UNCHANGED <<renderer, previewVars, editor, zoom, toc_result, call,
                           result, sinceChange, burst>>

\* the texts the user types, the files opened and what they hold, the
\* replies to the question
TypedTexts == {D_empty, D_typed}
OpenedPaths == {1, GonePath}
FileContents == {D_mojibake}
SavePaths == {None, 1}
Replies == {"yes", "no"}

NextWindow ==
    \/ \E text \in TypedTexts : TypeText(text)
    \/ EditorTimeout
    \/ PreviewTimeout
    \/ WindowTick
    \/ \E checked \in BOOLEAN : ToggleSanitizeHtml(checked)
    \/ \E reply \in Replies, emits \in BOOLEAN : NewFile(reply, emits)
    \/ \E file_path \in OpenedPaths, content \in FileContents, reply \in Replies,
          raises \in BOOLEAN, emits \in BOOLEAN :
           OpenFile(file_path, content, reply, raises, emits)
    \/ \E chosen \in SavePaths, raises \in BOOLEAN : SaveFile(chosen, raises)
    \/ \E reply \in Replies : CloseEvent(reply)

SpecWindow == Init /\ [][NextWindow]_vars

\* PreviewTimeout can be taken
UpdateTimerDue == ~main_window.closed /\ Due(_update_timer)

\* the event loop runs a timer's slot once it is due, and time passes.  The
\* last conjunct is WF_vars(PreviewTimeout) written out, with the condition
\* under which PreviewTimeout can be taken as a state predicate
FairWindow ==
    /\ SpecWindow
    /\ WF_vars(EditorTimeout)
    /\ WF_vars(WindowTick)
    /\ []<>(~UpdateTimerDue) \/ []<><<PreviewTimeout>>_vars

(***************************************************************************)
(* The scheduler of the preview                                            *)
(***************************************************************************)

\* C1: a burst of change events that has not been rendered keeps the timer
\* armed, and the debounced render fires once for it, a full window after its
\* last event and on the content of that event (unless another handler has
\* written the content since)
DebounceCoalescing ==
    /\ (burst.events >= 1 /\ burst.fired = 0) => _update_timer.active
    /\ lastOp = "timeout" =>
          /\ burst.events >= 1
          /\ burst.fired = 1
          /\ sinceChange = UPDATE_DELAY
          /\ published = 1
          /\ burst.interleaved # "write" => call.text = burst.content

\* three change events less than a window apart, then the one render
BurstOfThreeRendered ==
    /\ lastOp = "timeout"
    /\ burst.events = 3
    /\ burst.interleaved = "none"
    /\ call.text = burst.content

\* C2: the one timer is all that is pending.  While it runs its deadline is a
\* window after the last change event and the content recorded is that of this
\* event or of a later write; a change event leaves it armed for a full
\* window; its expiry leaves it idle and renders the content recorded then
OnePendingUpdate ==
    /\ _update_timer.active =>
          /\ burst.events >= 1
          /\ burst.fired = 0
          /\ _update_timer.remaining = UPDATE_DELAY - sinceChange
          /\ burst.interleaved # "write" => _current_markdown = burst.content
    /\ lastOp = "change" =>
          /\ _update_timer.active
          /\ _update_timer.remaining = UPDATE_DELAY
          /\ _current_markdown = burst.content
    /\ lastOp = "timeout" =>
          /\ ~_update_timer.active
          /\ call.text = _current_markdown
          /\ call.sanitize = sanitize_html

\* a change event in Pending, then the expiry: idle, the later content rendered
RestartedThenIdle ==
    /\ lastOp = "timeout"
    /\ burst.events = 2
    /\ ~_update_timer.active
    /\ call.text = D_section
    /\ _current_markdown = D_section

\* C3: a step of the immediate path (set_markdown_content with immediate,
\* refresh_content) renders the current content and publishes once without
\* touching the timer; and the expiry after such a step still comes a full
\* window after the last change event, once, and leaves the timer idle
ImmediateBypass ==
    [][/\ lastOp' \in {"immediate", "refresh"} =>
             /\ _update_timer' = _update_timer
             /\ published' = 1
             /\ call' = [text |-> _current_markdown', sanitize |-> sanitize_html,
                         fault |-> NoFault]
       /\ (lastOp' = "timeout" /\ burst.interleaved # "none") =>
             /\ sinceChange' = UPDATE_DELAY
             /\ burst'.fired = 1
             /\ published' = 1
             /\ ~_update_timer'.active]_vars

\* an immediate render while the debounced one is pending
BypassedWhilePending ==
    /\ lastOp \in {"immediate", "refresh"}
    /\ _update_timer.active
    /\ _update_timer.remaining < UPDATE_DELAY
    /\ burst.interleaved # "none"
    /\ published = 1

(***************************************************************************)
(* The renderer                                                            *)
(***************************************************************************)

\* the slug of 'Section'
S_section == <<115, 101, 99, 116, 105, 111, 110>>

\* the renderer as it is now with a processor that has converted nothing
Fresh(self) == [self EXCEPT !.markdown_processor = NewProcessor]

FirstIndex(html, tok) == Min({i \in 1..Len(html) : html[i] = tok} \cup {Len(html) + 1})

\* doctype, <html>, a head that holds a style block with text in it, a body,
\* and nothing behind </html>
IsLaidOut(html, head, style, headEnd) ==
    /\ Len(html) >= 8
    /\ html[1] = Doctype
    /\ html[2].type = "open" /\ html[2].name = "html"
    /\ head = 3
    /\ head < style /\ style + 2 < headEnd
    /\ html[style + 1].type = "text" /\ html[style + 1].text # <<>>
    /\ html[style + 2] = Close("style")
    /\ headEnd + 1 < Len(html) - 1
    /\ html[headEnd + 1] = Open("body", <<>>)
    /\ html[Len(html) - 1] = Close("body")
    /\ html[Len(html)] = Close("html")
IsCompleteDocument(html) ==
    IsLaidOut(html, FirstIndex(html, Open("head", <<>>)),
              FirstIndex(html, Open("style", <<>>)), FirstIndex(html, Close("head")))

\* what is between <body> and </body>
BodyOf(html) ==
    SubSeq(html, FirstIndex(html, Close("head")) + 2, Len(html) - 2)

\* the tags of a fragment, each with the names of its attributes
TagsOf(html) ==
    MapSeq(SelectSeq(html, IsTag),
           LAMBDA tok : <<tok.type, tok.name, MapSeq(tok.attrs, LAMBDA attr : attr.name)>>)

\* the opening tags of a fragment that the allow-list names
AllowedOpens(html) ==
    SelectSeq(html, LAMBDA tok : tok.type = "open" /\ tok.name \in allowed_tags)

\* C4: every render call returns, and what it returns is a complete HTML
\* document: on blank text, on text of control characters only, and when a
\* step of the pipeline fails
RenderTotal ==
    result.path # "none" => ~result.raised /\ IsCompleteDocument(result.html)

\* a render in which the post-processing step failed
FailedStepStillDocument ==
    /\ lastOp = "render"
    /\ call.fault.at = "postprocess"
    /\ result.path = "error"
    /\ IsCompleteDocument(result.html)

\* C5: a render of a non-blank document in which a step raises returns a
\* complete document whose body is the error fragment with the cause in it,
\* as the assembler cleans it
ErrorFragmentReturned ==
    result.path = "error" =>
        /\ ~result.raised
        /\ IsCompleteDocument(result.html)
        /\ result.body = <<Open("p", <<>>), Open("strong", <<>>), Text(S_error_rendering),
                           Close("strong"), Text(<<32>>)>>
                         \o call.fault.cause \o <<Close("p")>>
        /\ BodyOf(result.html) = Join(CleanHtmlTokens(result.body))

\* a render in which the conversion failed
ConversionFailed ==
    /\ lastOp = "render"
    /\ call.text = D_section
    /\ call.fault.at = "convert"
    /\ result.path = "error"
    /\ BodyOf(result.html) # <<>>

\* C5 as the specification has it: what the error path returns is the output
\* of no successful render
ErrorOutputDistinguishable ==
    result.path = "error" =>
        \A markdown_text \in Docs, sanitize \in BOOLEAN :
            \A rendering \in {render(Fresh(renderer), markdown_text, sanitize, NoFault)} :
                rendering.path = "ok" => rendering.html # result.html

\* C6: what a render call returns is what a renderer that has rendered
\* nothing returns for the same text and option
ConverterStateless ==
    result.path # "none" =>
        result = Outcome(render(Fresh(renderer), call.text, call.sanitize, call.fault))

\* '# Section' rendered again after its table of contents was fetched: the
\* heading has the slug without a suffix
SameSlugAgain ==
    /\ lastOp = "render"
    /\ call.text = D_section
    /\ toc_result.some
    /\ toc_result = get_toc(renderer)
    /\ \E i \in 1..Len(result.html) :
           result.html[i] = Open("h1", <<Attr("id", S_section)>>)

\* C7 as the specification has it: get_toc after a render call returns the
\* table of contents of that call's conversion, or nothing when it made none
TocOfLastRender ==
    (lastOp = "get_toc" /\ result.path # "none") =>
        toc_result = get_toc(render(Fresh(renderer), call.text, call.sanitize,
                                    call.fault).self)

\* C8: the body a sanitising render hands on has no tag outside allowed_tags,
\* and has the allowed tags of the post-processed fragment, in their order
SanitizerAllowList ==
    (result.path = "ok" /\ call.sanitize) =>
        /\ \A i \in 1..Len(result.body) :
               IsTag(result.body[i]) => result.body[i].name \in allowed_tags
        /\ MapSeq(SelectSeq(result.body, IsTag), LAMBDA tok : <<tok.type, tok.name>>)
           = MapSeq(SelectSeq(result.fixed,
                              LAMBDA tok : IsTag(tok) /\ tok.name \in allowed_tags),
                    LAMBDA tok : <<tok.type, tok.name>>)

\* '<script>alert(1)</script><p>ok</p>' sanitised
ScriptRemoved ==
    /\ lastOp = "render"
    /\ call.text = D_script
    /\ call.sanitize
    /\ \E i \in 1..Len(result.fixed) : result.fixed[i].name = "script"
    /\ result.body = <<Text(S_alert), Open("p", <<>>), Text(S_ok), Close("p")>>

\* C9: of the attributes of an allowed tag the sanitiser keeps those the
\* allow-list names for the tag, except an href or src with a protocol other
\* than http, https and mailto; it drops the others and keeps the tag
SanitizerAttributes ==
    (result.path = "ok" /\ call.sanitize) =>
        LET before == AllowedOpens(result.fixed)
            after == AllowedOpens(result.body)
        IN  /\ Len(after) = Len(before)
            /\ \A i \in 1..Len(before) :
                   /\ after[i].name = before[i].name
                   /\ after[i].attrs =
                        SelectSeq(before[i].attrs,
                                  LAMBDA attr :
                                      /\ attr.name \in allowed_attributes(before[i].name)
                                      /\ attr.name \in {"href", "src"} =>
                                            UriScheme(attr.value) \in
                                                {<<>>} \cup ALLOWED_PROTOCOLS)

\* '<a href="x" onclick="y">t</a>' sanitised
OnclickDropped ==
    /\ lastOp = "render"
    /\ call.text = D_onclick
    /\ call.sanitize
    /\ \E i \in 1..Len(result.fixed) :
           result.fixed[i] = Open("a", <<Attr("href", S_x), Attr("onclick", S_y)>>)
    /\ \E i \in 1..Len(result.body) : result.body[i] = Open("a", <<Attr("href", S_x)>>)

\* C9 as the specification has it: the sanitiser keeps exactly the attributes
\* the allow-list names for the tag
KeepsExactlyAllowListed ==
    (result.path = "ok" /\ call.sanitize) =>
        LET before == AllowedOpens(result.fixed)
            after == AllowedOpens(result.body)
        IN  /\ Len(after) = Len(before)
            /\ \A i \in 1..Len(before) :
                   /\ after[i].name = before[i].name
                   /\ after[i].attrs =
                        SelectSeq(before[i].attrs,
                                  LAMBDA attr :
                                      attr.name \in allowed_attributes(before[i].name))

\* C10: a render without the sanitize option hands the post-processed
\* fragment to the assembler, and the document has its tags and attributes
SanitizerOnlyOnRequest ==
    (result.path = "ok" /\ ~call.sanitize) =>
        /\ result.body = result.fixed
        /\ TagsOf(BodyOf(result.html)) = TagsOf(result.fixed)

\* '<a href="x" onclick="y">t</a>' rendered without the option
OnclickLeft ==
    /\ lastOp = "render"
    /\ call.text = D_onclick
    /\ ~call.sanitize
    /\ \E i \in 1..Len(result.html) :
           result.html[i] = Open("a", <<Attr("href", S_x), Attr("onclick", S_y)>>)

(***************************************************************************)
(* The claims about the normalisers                                        *)
(***************************************************************************)

Count(s, c) == Cardinality({i \in 1..Len(s) : s[i] = c})
Occurs(s, pat) == \E i \in 1..Len(s) : OccursAt(s, i, pat)

\* C11 as the specification has it: a normaliser applied to its own output
\* returns it unchanged, clean_text and clean_html alike
NormalizationIdempotent == lastOp = "again" => result.again = result.out

\* the half of C11 that is about clean_text
CleanTextIdempotent ==
    (lastOp = "again" /\ call.fn = "clean_text") => result.again = result.out

\* C12: the normalisers keep every U+200D where it is among the characters
\* they keep, return the joined emoji sequence as it is, and leave none of
\* U+200B, U+200C, U+FEFF
JoinerPreserved ==
    lastOp = "clean" =>
        /\ Count(result.out, 8205) = Count(call.text, 8205)
        /\ \A i \in 1..Len(result.out) : result.out[i] \notin {8203, 8204, 65279}
        /\ call.text = S_family => result.out = S_family
        /\ call.text = <<8203, 8204, 65279>> => result.out = <<>>

\* the joined emoji sequence normalised
JoinedEmojiCleaned ==
    /\ lastOp = "clean"
    /\ call.fn = "clean_text"
    /\ call.text = S_family
    /\ result.out = S_family

\* C13: the output of a normaliser has no U+00B6 and is what the text without
\* its pilcrows normalises to ('a¶b' gives 'ab'); clean_text leaves an
\* entity form of the text in the output
PilcrowRemoved ==
    lastOp = "clean" =>
        /\ Count(result.out, 182) = 0
        /\ call.text = <<97, 182, 98>> => result.out = <<97, 98>>
        /\ call.fn = "clean_text" =>
            /\ result.out = clean_text(SelectSeq(call.text, LAMBDA c : c # 182))
            /\ \A form \in {PARA_ENTITY, PARA_NUMERIC, PARA_HEX} :
                   Occurs(call.text, form) => Occurs(result.out, form)

\* 'a¶b' normalised by clean_text
PilcrowBetweenLetters ==
    /\ lastOp = "clean"
    /\ call.fn = "clean_text"
    /\ call.text = <<97, 182, 98>>
    /\ result.out = <<97, 98>>

(***************************************************************************)
(* The claims about the rendered document                                  *)
(***************************************************************************)

HasFence(markdown_text) == \E i \in 1..Len(markdown_text) : markdown_text[i].kind = "fence"
\* the code between the fences of the first fenced block, its lines with
\* their newlines
FenceCode(markdown_text) ==
    markdown_text[Min({i \in 1..Len(markdown_text) : markdown_text[i].kind = "fence"})].text
    \o <<10>>
FirstOpen(html, name) ==
    Min({i \in 1..Len(html) : html[i].type = "open" /\ html[i].name = name}
        \cup {Len(html) + 1})
FirstClose(html, name) ==
    Min({i \in 1..Len(html) : html[i].type = "close" /\ html[i].name = name}
        \cup {Len(html) + 1})
\* the text content of the first code element of html
CodeContent(html) ==
    Unescape(TextOf(html, FirstOpen(html, "code") + 1, FirstClose(html, "code") - 1))

\* C14 as the specification has it: the text content of the code element of
\* render(document, false) is the code between the fences
CodeRoundTrip ==
    (lastOp = "render" /\ result.path = "ok" /\ ~call.sanitize /\ HasFence(call.text)) =>
        CodeContent(result.html) = FenceCode(call.text)

\* what holds instead: the code element has the code as clean_text leaves it
CodeNormalized ==
    (lastOp = "render" /\ result.path = "ok" /\ ~call.sanitize /\ HasFence(call.text)) =>
        CodeContent(result.html) = clean_text(FenceCode(call.text))

\* a source that is empty or has whitespace only
WhitespaceOnly(markdown_text) ==
    \A i \in 1..Len(markdown_text) :
        /\ markdown_text[i].kind = "para"
        /\ markdown_text[i].strong = <<>>
        /\ \A k \in 1..Len(markdown_text[i].text) : IsSpace(markdown_text[i].text[k])

\* C15: a render call of an empty or whitespace-only text, with either
\* option, returns the complete document with an empty body, takes the blank
\* path and not the error path, and leaves the converter as it was
BlankInputPolicy ==
    [][(lastOp' = "render" /\ WhitespaceOnly(call'.text)) =>
           /\ ~result'.raised
           /\ result'.path = "blank"
           /\ IsCompleteDocument(result'.html)
           /\ BodyOf(result'.html) = <<>>
           /\ renderer' = renderer]_vars

\* ' \n' rendered with the sanitize option by a renderer that holds the toc
\* of an earlier document
SpacesRendered ==
    /\ lastOp = "render"
    /\ call.text = D_spaces
    /\ call.sanitize
    /\ result.path = "blank"
    /\ renderer.markdown_processor.toc # <<>>


\* C20: a stylesheet whose file is missing or unreadable when the renderer is
\* constructed is '' and the other is the text of its file, no step changes
\* either of them, and every render returns a complete document
StylesheetsLoadedOnce ==
    [][/\ renderer'.style_css = (IF call'.style_found THEN S_style_css ELSE <<>>)
       /\ renderer'.pygments_css = (IF call'.pygments_found THEN S_pygments_css ELSE <<>>)
       /\ renderer'.style_css = renderer.style_css
       /\ renderer'.pygments_css = renderer.pygments_css
       /\ lastOp' = "render" =>
              /\ ~result'.raised
              /\ IsCompleteDocument(result'.html)]_vars

\* a section rendered by a renderer that found pygments.css and no style.css
RenderedWithoutStyleCss ==
    /\ lastOp = "render"
    /\ call.text = D_section
    /\ ~call.style_found /\ call.pygments_found
    /\ renderer.style_css = <<>> /\ renderer.pygments_css = S_pygments_css
    /\ result.path = "ok"
    /\ IsCompleteDocument(result.html)
(***************************************************************************)
(* The claims about the post-processor and the assembler                   *)
(***************************************************************************)

IsPreOpen(tok) == tok.type = "open" /\ tok.name = "pre"
IsCodehiliteOpen(tok) ==
    /\ tok.type = "open" /\ tok.name = "div"
    /\ tok.attrs # <<>> /\ tok.attrs[1] = Attr("class", S_codehilite)
Styles(tok, style) == Cardinality({k \in 1..Len(tok.attrs) : tok.attrs[k] = Attr("style", style)})

\* C16 as the specification has it: after the two substitutions for blocks
\* every <pre ...> and every <div class="codehilite" ...> opening tag of the
\* input carries the injected style once behind its own attributes, and every
\* other token of the input is as it was
BlockRule ==
    lastOp = "fix" =>
        /\ Len(result.blocks) = Len(call.html)
        /\ \A i \in 1..Len(call.html) :
               IF IsPreOpen(call.html[i]) \/ IsCodehiliteOpen(call.html[i])
               THEN /\ result.blocks[i] = AddStyle(call.html[i], PRE_STYLE)
                    /\ Styles(result.blocks[i], PRE_STYLE) = 1
               ELSE result.blocks[i] = call.html[i]

\* the half of C16 that holds: the tags the rule is for are styled once
BlocksStyled ==
    lastOp = "fix" =>
        \A i \in 1..Len(call.html) :
            (IsPreOpen(call.html[i]) \/ IsCodehiliteOpen(call.html[i])) =>
                /\ result.blocks[i] = AddStyle(call.html[i], PRE_STYLE)
                /\ Styles(result.blocks[i], PRE_STYLE) = 1

\* the <code> opening tags of a fragment that are inside a <pre>: a <pre> is
\* opened before them and is not closed in between
InsidePre(html, i) ==
    \E k \in 1..(i - 1) :
        /\ IsPreOpen(html[k])
        /\ \A j \in (k + 1)..(i - 1) : html[j] # Close("pre")
IsCodeOpen(tok) == tok.type = "open" /\ tok.name = "code"

\* C17 as the specification has it: in the returned fragment every <code>
\* inside a <pre> carries the style for code, however many there are
CodeRule ==
    lastOp = "fix" =>
        /\ Len(result.out) = Len(call.html)
        /\ \A i \in 1..Len(call.html) :
               (IsCodeOpen(call.html[i]) /\ InsidePre(call.html, i)) =>
                   Styles(result.out[i], CODE_STYLE) = 1

\* the <code> opening tags that come first inside their <pre>
FirstInsidePre(html, i) ==
    \E k \in 1..(i - 1) :
        /\ IsPreOpen(html[k])
        /\ \A j \in (k + 1)..(i - 1) : html[j] # Close("pre") /\ ~IsCodeOpen(html[j])

\* the half of C17 that holds: the first <code> of every <pre> is styled
FirstCodeStyled ==
    lastOp = "fix" =>
        \A i \in 1..Len(call.html) :
            (IsCodeOpen(call.html[i]) /\ FirstInsidePre(call.html, i)) =>
                Styles(result.out[i], CODE_STYLE) = 1

HasPilcrow(s) ==
    \/ Count(s, 182) > 0
    \/ Occurs(s, PARA_ENTITY) \/ Occurs(s, PARA_NUMERIC) \/ Occurs(s, PARA_HEX)
TokenHasPilcrow(tok) ==
    \/ HasPilcrow(tok.text)
    \/ \E k \in 1..Len(tok.attrs) : HasPilcrow(tok.attrs[k].value)

\* C18 as the specification has it: the body of the assembled document holds
\* no pilcrow and none of its entity forms, whatever the fragment was
BodyWithoutPilcrow ==
    lastOp = "assemble" =>
        \A i \in 1..Len(BodyOf(result.out)) : ~TokenHasPilcrow(BodyOf(result.out)[i])

\* the half of C18 that holds: the pilcrow character itself never arrives
BodyWithoutPilcrowCharacter ==
    lastOp = "assemble" =>
        \A i \in 1..Len(BodyOf(result.out)) :
            /\ Count(BodyOf(result.out)[i].text, 182) = 0
            /\ \A k \in 1..Len(BodyOf(result.out)[i].attrs) :
                   Count(BodyOf(result.out)[i].attrs[k].value, 182) = 0

(***************************************************************************)
(* The claim about the scroll offset of the preview                        *)
(***************************************************************************)

\* C19 as the specification has it: a handler that publishes leaves the
\* scroll offset as it found it
ScrollPreserved ==
    [][published' > 0 => verticalScrollBar'.value = verticalScrollBar.value]_vars

\* the part of C19 that holds: _perform_update, when nothing raises, leaves
\* the offset as it found it as far as the new document reaches
ScrollRestoredByUpdate ==
    [][lastOp' \in {"timeout", "immediate", "refresh", "sanitize"} =>
           \/ verticalScrollBar'.value = verticalScrollBar.value
           \/ /\ verticalScrollBar'.value = verticalScrollBar'.maximum
              /\ verticalScrollBar'.maximum < verticalScrollBar.value]_vars

(***************************************************************************)
(* The claims about line endings and about is_problematic_char            *)
(***************************************************************************)

\* the text as the steps before the last leave it
BeforeLineEndings(text) ==
    NFC(StripControl(RemoveInvisible(NormalizeSpaces(RemoveArtifacts(text)))))
CrLfPairs(s) == Cardinality({i \in 1..(Len(s) - 1) : s[i] = 13 /\ s[i + 1] = 10})
OneLfEach(before, out) ==
    /\ Count(out, 13) = 0
    /\ Count(out, 10) = Count(before, 10) + Count(before, 13) - CrLfPairs(before)
    /\ Len(out) = Len(before) - CrLfPairs(before)
    /\ SelectSeq(out, LAMBDA c : c # 10) = SelectSeq(before, LAMBDA c : c \notin {10, 13})

\* C21: clean_text returns no carriage return; of the text with the removed
\* characters stripped, each \r\n pair has become one \n and each other \r one
\* \n, and every other character is where it was
LineEndingsNormalized ==
    (lastOp = "clean" /\ call.fn = "clean_text") =>
        OneLfEach(BeforeLineEndings(call.text), result.out)

\* \r and \n with a zero-width space between them have become one \n
SplitPairJoined ==
    /\ lastOp = "clean"
    /\ call.fn = "clean_text"
    /\ call.text = <<13, 8203, 10>>
    /\ result.out = <<10>>

\* C22: no character of what clean_text returns is one is_problematic_char
\* flags, and is_problematic_char does not flag U+200D
NoProblematicCharLeft ==
    /\ ~is_problematic_char(8205)
    /\ (lastOp = "clean" /\ call.fn = "clean_text") =>
           \A i \in 1..Len(result.out) : ~is_problematic_char(result.out[i])

\* a text with a replacement character, a control character, a line separator
\* and a word joiner, cleaned
FlaggedCharactersCleaned ==
    /\ lastOp = "clean"
    /\ call.fn = "clean_text"
    /\ call.text = <<97, 160, 8232, 65533, 1, 8288>>
    /\ result.out = <<97, 32, 10>>

(***************************************************************************)
(* The claims about the sanitiser on the paths of render                   *)
(***************************************************************************)

OnlyAllowed(html) ==
    \A i \in 1..Len(html) :
        IsTag(html[i]) =>
            /\ html[i].name \in allowed_tags
            /\ \A k \in 1..Len(html[i].attrs) :
                   html[i].attrs[k].name \in allowed_attributes(html[i].name)

\* C25 as the specification has it: the body of the document a sanitising
\* render of a non-blank text returns has no tag and no attribute outside the
\* allow-list, on the error path too
SanitizedOnEveryPath ==
    (lastOp = "render" /\ call.sanitize /\ result.path \in {"ok", "error"}) =>
        OnlyAllowed(BodyOf(result.html))

\* the half of C25 that holds: the path on which nothing raises
SanitizedWhenNothingRaises ==
    (lastOp = "render" /\ call.sanitize /\ result.path = "ok") =>
        OnlyAllowed(BodyOf(result.html))

\* C26 as the specification has it: in the document a render returns every
\* <pre>, every <div class="codehilite"> and the first <code> of every <pre>
\* carries the injected style, with the sanitize option and without
StylesReachDisplay ==
    (lastOp = "render" /\ result.path = "ok") =>
        \A i \in 1..Len(BodyOf(result.html)) :
            /\ (IsPreOpen(BodyOf(result.html)[i]) \/ IsCodehiliteOpen(BodyOf(result.html)[i]))
                   => Styles(BodyOf(result.html)[i], PRE_STYLE) = 1
            /\ (IsCodeOpen(BodyOf(result.html)[i]) /\ FirstInsidePre(BodyOf(result.html), i))
                   => Styles(BodyOf(result.html)[i], CODE_STYLE) = 1

\* the half of C26 that holds: without the sanitize option
StylesReachDisplayUnsanitized ==
    (lastOp = "render" /\ result.path = "ok" /\ ~call.sanitize) =>
        \A i \in 1..Len(BodyOf(result.html)) :
            /\ (IsPreOpen(BodyOf(result.html)[i]) \/ IsCodehiliteOpen(BodyOf(result.html)[i]))
                   => Styles(BodyOf(result.html)[i], PRE_STYLE) = 1
            /\ (IsCodeOpen(BodyOf(result.html)[i]) /\ FirstInsidePre(BodyOf(result.html), i))
                   => Styles(BodyOf(result.html)[i], CODE_STYLE) = 1

(***************************************************************************)
(* The claim about a pending render that is superseded                     *)
(***************************************************************************)

\* C24: clear_content and an immediate set_markdown_content that run while the
\* debounced render is pending leave the timer as it is and record their own
\* content; no other handler than these and a change event writes the content;
\* and the expiry after such a call renders and shows the content recorded
\* last, with the option as it is then
SupersededNotStale ==
    [][/\ (_update_timer.active /\ lastOp' \in {"clear", "immediate"}) =>
             /\ _update_timer' = _update_timer
             /\ _current_markdown' = call'.text
       /\ _current_markdown' # _current_markdown =>
             lastOp' \in {"change", "immediate", "clear"}
       /\ (lastOp' = "timeout" /\ burst.interleaved = "write") =>
             /\ call'.text = _current_markdown
             /\ call'.sanitize = sanitize_html
             /\ \A update \in {_perform_update(renderer, _current_markdown, sanitize_html)} :
                    document' = update.html]_vars

\* the expiry after a clear_content that ran while a change was pending: the
\* empty text is rendered, not the text of the change event
ClearedThenExpired ==
    /\ lastOp = "timeout"
    /\ burst.interleaved = "write"
    /\ burst.content # D_empty
    /\ call.text = D_empty
    /\ _current_markdown = D_empty
    /\ BodyOf(document) = <<>>

(***************************************************************************)
(* The claims about the zoom and about the recent files                    *)
(***************************************************************************)

\* C29: before and after every zoom call the stored factor is between 0.25 and
\* 5.0 and the point size of the font between 6 and 72, and a call that emits
\* zoom_changed has changed the stored factor
ZoomWithinLimits ==
    [][/\ zoom._zoom_factor \in MIN_ZOOM..MAX_ZOOM
       /\ zoom'._zoom_factor \in MIN_ZOOM..MAX_ZOOM
       /\ zoom.pointSize \in MIN_POINT_SIZE..MAX_POINT_SIZE
       /\ zoom'.pointSize \in MIN_POINT_SIZE..MAX_POINT_SIZE
       /\ zoom'.zoom_changed => zoom'._zoom_factor # zoom._zoom_factor]_vars

\* set_zoom_factor(100.0): the factor is 5.0 and the font 55 pt
ZoomedToTheMaximum ==
    /\ lastOp = "set_zoom_factor"
    /\ zoom.zoom_changed
    /\ zoom._zoom_factor = MAX_ZOOM
    /\ zoom.pointSize = 55

IsInjective(s) == \A i \in 1..Len(s), j \in 1..Len(s) : s[i] = s[j] => i = j

\* C30 as the specification has it: the stored list and the window's list
\* have at most 5 entries, none twice, the file added last first; and
\* save_recent_files stores the first five of the list it is given
RecentFilesKept ==
    /\ Len(settings.recent_files) <= MAX_RECENT_FILES
    /\ IsInjective(settings.recent_files)
    /\ Len(main_window.recent_files) <= MAX_RECENT_FILES
    /\ IsInjective(main_window.recent_files)
    /\ lastOp = "add_recent_file" =>
           /\ main_window.recent_files[1] = call.files[1]
           /\ settings.recent_files = main_window.recent_files
    /\ lastOp = "save_recent_files" =>
           settings.recent_files =
               SubSeq(call.files, 1, Min({MAX_RECENT_FILES, Len(call.files)}))

\* the half of C30 that holds: what add_recent_file, a save of the window's
\* list and a restore leave
RecentFilesBounded ==
    /\ Len(main_window.recent_files) <= MAX_RECENT_FILES
    /\ IsInjective(main_window.recent_files)
    /\ lastOp = "add_recent_file" =>
           /\ main_window.recent_files[1] = call.files[1]
           /\ settings.recent_files = main_window.recent_files
    /\ (lastOp = "save_recent_files" /\ call.files = main_window.recent_files) =>
           settings.recent_files = call.files
    /\ lastOp = "restore_recent_files" =>
           /\ Len(settings.recent_files) <= MAX_RECENT_FILES
           /\ main_window.recent_files = SelectSeq(settings.recent_files, LAMBDA f : f \in Paths)

(***************************************************************************)
(* The claims about the window                                             *)
(***************************************************************************)

\* C27 as the specification has it: once new_file, a successful open_file or
\* a successful save has completed, is_modified is false, and after new_file
\* current_file_path is None
NotModifiedAfterwards ==
    /\ lastOp \in {"clear", "immediate", "save_file"} => ~main_window.is_modified
    /\ lastOp = "clear" => main_window.current_file_path = None

\* the part of C27 that holds: open_file and the save end with is_modified
\* false, new_file with no current file and an empty editor
NotModifiedAfterOpenAndSave ==
    /\ lastOp \in {"immediate", "save_file"} =>
           /\ ~main_window.is_modified
           /\ main_window.current_file_path # None
    /\ lastOp = "clear" =>
           /\ main_window.current_file_path = None
           /\ editor.text = D_empty

\* C28: a step of new_file, open_file or closeEvent that starts with
\* is_modified true replaces the text or closes the window only when the user
\* has answered yes; when the user answers no, the editor, the current file,
\* is_modified, the preview and the window stay as they are
DiscardOnlyConfirmed ==
    [][/\ (main_window.is_modified /\ lastOp' \in {"clear", "immediate", "close"}) =>
              main_window'.reply = "yes"
       /\ (~main_window.is_modified /\ lastOp' \in {"clear", "immediate", "close"}) =>
              main_window'.reply = "none"
       /\ main_window'.reply = "no" =>
              /\ main_window.is_modified
              /\ lastOp' = "declined"
              /\ main_window' = [main_window EXCEPT !.reply = "no"]
              /\ UNCHANGED <<editor, previewVars, settings>>
       /\ (editor'.text # editor.text \/ main_window'.closed) =>
              lastOp' \in {"edit", "clear", "immediate", "close"}]_vars

\* the user has typed and then declined to discard
DeclinedWithText ==
    /\ lastOp = "declined"
    /\ main_window.reply = "no"
    /\ main_window.is_modified
    /\ editor.text = D_typed
    /\ ~main_window.closed

\* both timers are idle and the preview shows the render of the editor's text
Settled ==
    /\ ~editor.debounce_timer.active
    /\ ~_update_timer.active
    /\ document = _perform_update(renderer, RemovePilcrow(editor.text), sanitize_html).html

\* the handlers the user runs
UserOps == {"edit", "clear", "immediate", "sanitize", "save_file", "close", "declined", "failed"}

\* C23: if from some point on no handler of the user runs, and the text has
\* been changed, replaced or cleared at least once, then from some point on
\* both timers are idle and the preview shows the render of the editor's text
\* without pilcrows under the current sanitize setting
PreviewEventuallyConsistent ==
    (<>[](lastOp \notin UserOps) /\ <>(lastOp \in {"edit", "clear", "immediate"}))
        => <>[]Settled

\* the typed text has gone through both timers and is shown sanitized
TypedTextShown ==
    /\ lastOp = "timeout"
    /\ editor.text = D_typed
    /\ sanitize_html
    /\ Settled

\* C23 without the condition that the text has been changed: at the start
\* the preview shows the welcome text over an empty editor
ConsistentFromTheStart == <>[](lastOp \notin UserOps) => <>[]Settled
=============================================================================
